---- MODULE Spec2Model ----
(***************************************************************************)
(* A model of the python_cimis client library: the response mapper         *)
(* (CimisEndpoints.parse_data_response and its copy in CimisClient) and    *)
(* the CSV projector (CimisClient.export_to_csv and                        *)
(* CimisClient._export_records_to_csv), and the request layer (the URLs of *)
(* CimisEndpoints, CimisClient._make_request and the fetch operations).    *)
(*                                                                         *)
(* Python values are represented as follows.                               *)
(*   str          a TLA+ string; None is the reserved string NONE          *)
(*   dict         a function whose DOMAIN is the key set                   *)
(*   list         a sequence                                               *)
(*   JSON value   inside a record object, where a key may hold a scalar or *)
(*                an object, a tagged record [isdict, str, obj]            *)
(*   raise X      a result record whose field raised is "X"                *)
(***************************************************************************)
EXTENDS Integers, Sequences, FiniteSets, TLC

VARIABLES
    data,          \* the parsed JSON response handed to the mapper
    weather_data,  \* the WeatherData the caller holds
    records,       \* the list of records the projector is asked to include
    insertion,     \* for each of records, the keys of its data_values in the
                   \* order of their insertion (a dict keeps it, a function
                   \* does not)
    files,         \* the file system: path -> content of the files that exist
    outcome        \* what the last call did: its name, arguments, result

vars == <<data, weather_data, records, insertion, files, outcome>>

----------------------------------------------------------------------------
(* Bounds of the model *)

\* most providers in a response or a WeatherData
MaxProviders == 2
\* most records in a response or a WeatherData, over all its providers
MaxRecords == 3
\* most data items in one record object / one WeatherRecord
MaxItems == 2

----------------------------------------------------------------------------
(* Python built-ins *)

NONE == "<None>"

EmptyDict == [k \in {} |-> NONE]

\* d.get(k, default)
Get(d, k, default) == IF k \in DOMAIN d THEN d[k] ELSE default

\* the code points of the characters that occur in the item names of the model
CodePoint ==
    [c \in {"-", "A", "D", "E", "H", "Z", "a", "d", "e", "h", "i", "l", "m",
            "o", "p", "r", "t", "y"} |->
        CASE c = "-" -> 45  [] c = "A" -> 65  [] c = "D" -> 68  [] c = "E" -> 69
          [] c = "H" -> 72  [] c = "Z" -> 90  [] c = "a" -> 97  [] c = "d" -> 100
          [] c = "e" -> 101 [] c = "h" -> 104 [] c = "i" -> 105 [] c = "l" -> 108
          [] c = "m" -> 109 [] c = "o" -> 111 [] c = "p" -> 112 [] c = "r" -> 114
          [] c = "t" -> 116 [] c = "y" -> 121]

CharAt(s, i) == SubSeq(s, i, i)

\* s.startswith(prefix)
startswith(s, prefix) ==
    /\ Len(s) >= Len(prefix)
    /\ SubSeq(s, 1, Len(prefix)) = prefix

\* a < b on str: the first differing character decides, a proper prefix is less
RECURSIVE StrLessFrom(_, _, _)
StrLessFrom(a, b, i) ==
    IF i > Len(b) THEN FALSE
    ELSE IF i > Len(a) THEN TRUE
    ELSE IF CharAt(a, i) = CharAt(b, i) THEN StrLessFrom(a, b, i + 1)
    ELSE CodePoint[CharAt(a, i)] < CodePoint[CharAt(b, i)]

StrLess(a, b) == StrLessFrom(a, b, 1)

\* sorted(S) for a set of str
RECURSIVE sorted(_)
sorted(S) ==
    IF S = {} THEN <<>>
    ELSE LET least == CHOOSE x \in S : \A y \in S \ {x} : StrLess(x, y)
         IN  <<least>> \o sorted(S \ {least})

\* the elements of a sequence
Range(seq) == {seq[i] : i \in 1..Len(seq)}

RECURSIVE Flatten(_)
Flatten(seqs) ==
    IF seqs = <<>> THEN <<>> ELSE Head(seqs) \o Flatten(Tail(seqs))

\* results of a call
Return(v) == [raised |-> "none", value |-> v]
Raise(exc) == [raised |-> exc, value |-> NONE]

----------------------------------------------------------------------------
(* models.py *)

DataValue(value, qc, unit) == [value |-> value, qc |-> qc, unit |-> unit]

WeatherRecord(date, julian, station, standard, zip_codes, scope, hour, data_values) ==
    [date |-> date, julian |-> julian, station |-> station, standard |-> standard,
     zip_codes |-> zip_codes, scope |-> scope, hour |-> hour,
     data_values |-> data_values]

WeatherProvider(name, type, owner, recs) ==
    [name |-> name, type |-> type, owner |-> owner, records |-> recs]

WeatherData(providers) == [providers |-> providers]

\* (mutant: the record lists are concatenated last provider first)
get_all_records_Reversed(wd) ==
    Flatten([i \in 1..Len(wd.providers) |->
                wd.providers[Len(wd.providers) + 1 - i].records])
\* WeatherData.get_all_records: the providers' record lists, concatenated
get_all_records(wd) ==
    Flatten([i \in 1..Len(wd.providers) |-> wd.providers[i].records])

----------------------------------------------------------------------------
(* JSON values inside a record object *)

\* a scalar (a JSON string, or null as NONE)
JStr(s) == [isdict |-> FALSE, str |-> s, obj |-> EmptyDict]
\* an object
JObj(o) == [isdict |-> TRUE, str |-> "", obj |-> o]

\* record_data.get(k, default) for a key that holds a scalar
GetScalar(d, k, default) == IF k \in DOMAIN d THEN d[k].str ELSE default

----------------------------------------------------------------------------
(* endpoints.py: CimisEndpoints.parse_data_response *)

\* (mutant: the guard without its second test)
MissingProviders_FirstKeyOnly(d) == "Data" \notin DOMAIN d
\* the guard of the early return
MissingProviders(d) ==
    "Data" \notin DOMAIN d \/ "Providers" \notin DOMAIN d["Data"]

\* data['Data']['Providers']: a subscript of a missing key raises KeyError
DataProviders(d) ==
    IF "Data" \notin DOMAIN d THEN Raise("KeyError")
    ELSE IF "Providers" \notin DOMAIN d["Data"] THEN Raise("KeyError")
    ELSE Return(d["Data"]["Providers"])

\* (mutant: any object is taken for a data item)
IsDataItem_AnyDict(value) == value.isdict
\* isinstance(value, dict) and 'Value' in value
IsDataItem(value) == value.isdict /\ "Value" \in DOMAIN value.obj

\* (mutant: the default of qc is the empty string)
MakeDataValue_EmptyQc(o) ==
    DataValue(Get(o, "Value", NONE), Get(o, "Qc", ""), Get(o, "Unit", ""))
\* DataValue(value=value.get('Value'), qc=value.get('Qc', ' '), unit=value.get('Unit', ''))
MakeDataValue(o) ==
    DataValue(Get(o, "Value", NONE), Get(o, "Qc", " "), Get(o, "Unit", ""))

\* the loop over record_data.items() that fills record.data_values
ParseDataValues(record_data) ==
    [key \in {k \in DOMAIN record_data : IsDataItem(record_data[k])} |->
        MakeDataValue(record_data[key].obj)]

\* (mutant: the hour is kept only on hourly records)
MapRecord_HourOnlyWhenHourly(record_data) ==
    WeatherRecord(GetScalar(record_data, "Date", ""),
                  GetScalar(record_data, "Julian", ""),
                  GetScalar(record_data, "Station", NONE),
                  GetScalar(record_data, "Standard", "english"),
                  GetScalar(record_data, "ZipCodes", ""),
                  GetScalar(record_data, "Scope", "daily"),
                  IF GetScalar(record_data, "Scope", "daily") = "hourly"
                  THEN GetScalar(record_data, "Hour", NONE) ELSE NONE,
                  ParseDataValues(record_data))
\* one pass of the loop over provider_data.get('Records', [])
MapRecord(record_data) ==
    WeatherRecord(GetScalar(record_data, "Date", ""),
                  GetScalar(record_data, "Julian", ""),
                  GetScalar(record_data, "Station", NONE),
                  GetScalar(record_data, "Standard", "english"),
                  GetScalar(record_data, "ZipCodes", ""),
                  GetScalar(record_data, "Scope", "daily"),
                  GetScalar(record_data, "Hour", NONE),
                  ParseDataValues(record_data))

\* one pass of the loop over data['Data']['Providers']
MapProvider(provider_data) ==
    LET records_json == Get(provider_data, "Records", <<>>)
    IN  WeatherProvider(Get(provider_data, "Name", ""),
                        Get(provider_data, "Type", ""),
                        Get(provider_data, "Owner", ""),
                        [i \in 1..Len(records_json) |-> MapRecord(records_json[i])])

parse_data_response(d) ==
    IF MissingProviders(d) THEN Return(WeatherData(<<>>))
    ELSE LET ps == DataProviders(d)
         IN  IF ps.raised # "none" THEN Raise(ps.raised)
             ELSE Return(WeatherData(
                      [i \in 1..Len(ps.value) |-> MapProvider(ps.value[i])]))

(* client.py: CimisClient._parse_data_response, a copy of the above *)
client_parse_data_response(d) ==
    IF "Data" \notin DOMAIN d \/ "Providers" \notin DOMAIN d["Data"]
    THEN Return(WeatherData(<<>>))
    ELSE Return(WeatherData(
             [i \in 1..Len(d["Data"]["Providers"]) |->
                 MapProvider(d["Data"]["Providers"][i])]))

----------------------------------------------------------------------------
(* pathlib.Path, for file names without a directory part *)

\* name.rfind('.'), counted from 1; 0 when the name has no dot
RECURSIVE RFindDot(_, _)
RFindDot(name, i) ==
    IF i = 0 THEN 0
    ELSE IF CharAt(name, i) = "." THEN i
    ELSE RFindDot(name, i - 1)

\* Path.suffix: from the last dot on, unless the dot is the first or the last
\* character of the name
suffix(name) ==
    LET i == RFindDot(name, Len(name))
    IN  IF 1 < i /\ i < Len(name) THEN SubSeq(name, i, Len(name)) ELSE ""

\* Path.stem: the name without its suffix
stem(name) == SubSeq(name, 1, Len(name) - Len(suffix(name)))

\* FilenameGenerator.generate_for_weather_data: cimis_weather_data_<stations>_
\* <dates>_<timestamp>.csv; no file is touched. The name depends on the clock,
\* the model keeps its stem fixed.
generate_for_weather_data(wd) == "cimis_weather_data.csv"

----------------------------------------------------------------------------
(* client.py: CimisClient._export_records_to_csv *)

\* the keys of the data_values of the records to include
all_data_items(recs) == UNION {DOMAIN r.data_values : r \in Range(recs)}

\* (mutant: the daily and hourly filters keep only the keys with their prefix)
filter_data_items_PrefixOnly(items, scope_type) ==
    IF scope_type = "daily" THEN {item \in items : startswith(item, "Day")}
    ELSE IF scope_type = "hourly" THEN {item \in items : startswith(item, "Hly")}
    ELSE items
\* (mutant: the daily filter is applied in mixed mode too)
filter_data_items_MixedAsDaily(items, scope_type) ==
    IF scope_type = "hourly"
    THEN {item \in items :
             \/ startswith(item, "Hly")
             \/ ~(startswith(item, "Day") \/ startswith(item, "Hly"))}
    ELSE {item \in items :
             \/ startswith(item, "Day")
             \/ ~(startswith(item, "Day") \/ startswith(item, "Hly"))}
\* the data items a scope type keeps
filter_data_items(items, scope_type) ==
    IF scope_type = "daily"
    THEN {item \in items :
             \/ startswith(item, "Day")
             \/ ~(startswith(item, "Day") \/ startswith(item, "Hly"))}
    ELSE IF scope_type = "hourly"
    THEN {item \in items :
             \/ startswith(item, "Hly")
             \/ ~(startswith(item, "Day") \/ startswith(item, "Hly"))}
    ELSE items

\* the cleaned name of an item: without a leading Hly
clean_item_name(item) ==
    IF startswith(item, "Hly") THEN SubSeq(item, 4, Len(item)) ELSE item

\* a list without the repetitions of its elements
RECURSIVE Distinct(_)
Distinct(seq) ==
    IF seq = <<>> THEN <<>>
    ELSE LET before == Distinct(SubSeq(seq, 1, Len(seq) - 1))
         IN  IF seq[Len(seq)] \in Range(before) THEN before
             ELSE Append(before, seq[Len(seq)])

\* (mutant: the items are left in the order in which the loop over the
\* records and their data_values met them)
sorted_data_items_AsInserted(items) ==
    SelectSeq(Distinct(Flatten(insertion)), LAMBDA k : k \in items)
\* (mutant: the items are ordered by their cleaned names)
RECURSIVE sorted_data_items_ByCleanName(_)
sorted_data_items_ByCleanName(items) ==
    IF items = {} THEN <<>>
    ELSE LET least == CHOOSE x \in items : \A y \in items :
                          ~StrLess(clean_item_name(y), clean_item_name(x))
         IN  <<least>> \o sorted_data_items_ByCleanName(items \ {least})
\* sorted_data_items = sorted(filtered_data_items)
sorted_data_items(items) == sorted(items)

\* (mutant: Hour and DateTime_Full are added in hourly mode only)
base_columns_HourlyOnly(scope_type) ==
    <<"Provider_Name", "Provider_Type", "Date", "Julian", "Station",
      "Standard", "ZipCodes", "Scope", "DateTime_Object">>
    \o (IF scope_type = "hourly" THEN <<"Hour", "DateTime_Full">> ELSE <<>>)
base_columns(scope_type) ==
    <<"Provider_Name", "Provider_Type", "Date", "Julian", "Station",
      "Standard", "ZipCodes", "Scope", "DateTime_Object">>
    \o (IF scope_type \in {"hourly", "mixed"} THEN <<"Hour", "DateTime_Full">>
        ELSE <<>>)

\* three columns for each item, in the order of the sorted items
data_columns(items_sorted) ==
    Flatten([i \in 1..Len(items_sorted) |->
                <<clean_item_name(items_sorted[i]) \o "_Value",
                  clean_item_name(items_sorted[i]) \o "_QC",
                  clean_item_name(items_sorted[i]) \o "_Unit">>])

\* the decimal digits
Digit ==
    [c \in {"0", "1", "2", "3", "4", "5", "6", "7", "8", "9"} |->
        CASE c = "0" -> 0 [] c = "1" -> 1 [] c = "2" -> 2 [] c = "3" -> 3
          [] c = "4" -> 4 [] c = "5" -> 5 [] c = "6" -> 6 [] c = "7" -> 7
          [] c = "8" -> 8 [] c = "9" -> 9]

AllDigits(s) == \A i \in 1..Len(s) : CharAt(s, i) \in DOMAIN Digit

\* the value of a string of digits
RECURSIVE DigitsValue(_)
DigitsValue(s) ==
    IF s = "" THEN 0
    ELSE 10 * DigitsValue(SubSeq(s, 1, Len(s) - 1)) + Digit[CharAt(s, Len(s))]

\* int(s) for a token of digits and letters: ValueError unless all are digits
int(s) ==
    IF s # "" /\ AllDigits(s) THEN Return(DigitsValue(s)) ELSE Raise("ValueError")

\* s.zfill(width)
RECURSIVE zfill(_, _)
zfill(s, width) == IF Len(s) >= width THEN s ELSE zfill("0" \o s, width)

\* the text before the first '-' of s, and the text after it
RECURSIVE FindDash(_, _)
FindDash(s, i) ==
    IF i > Len(s) THEN 0 ELSE IF CharAt(s, i) = "-" THEN i ELSE FindDash(s, i + 1)

\* s.split('-')
RECURSIVE SplitDash(_)
SplitDash(s) ==
    LET i == FindDash(s, 1)
    IN  IF i = 0 THEN <<s>>
        ELSE <<SubSeq(s, 1, i - 1)>> \o SplitDash(SubSeq(s, i + 1, Len(s)))

IsLeap(year) == (year % 4 = 0 /\ year % 100 # 0) \/ year % 400 = 0

DaysInMonth(year, month) ==
    IF month = 2 THEN (IF IsLeap(year) THEN 29 ELSE 28)
    ELSE IF month \in {4, 6, 9, 11} THEN 30 ELSE 31

\* the text of a day of the month that is written ' 5': its digit
DayDigits(d) ==
    IF Len(d) = 2 /\ CharAt(d, 1) = " " THEN SubSeq(d, 2, 2) ELSE d

\* datetime.strptime(s, '%Y-%m-%d'): %Y is four digits, %m is 1[0-2]|0[1-9]|[1-9],
\* %d is 3[01]|[12]\d|0[1-9]|[1-9]| [1-9]; the day must exist in the month;
\* anything else is a ValueError
strptime(s) ==
    LET parts == SplitDash(s)
    IN  IF Len(parts) # 3 THEN Raise("ValueError")
        ELSE LET y == parts[1]
                 m == parts[2]
                 d == DayDigits(parts[3])
             IN  IF ~(Len(y) = 4 /\ AllDigits(y)
                      /\ Len(m) \in {1, 2} /\ AllDigits(m)
                      /\ Len(d) \in {1, 2} /\ AllDigits(d))
                 THEN Raise("ValueError")
                 ELSE IF ~(/\ DigitsValue(y) >= 1
                           /\ DigitsValue(m) \in 1..12
                           /\ DigitsValue(d) \in 1..DaysInMonth(DigitsValue(y),
                                                                DigitsValue(m)))
                 THEN Raise("ValueError")
                 ELSE Return([year |-> DigitsValue(y), month |-> DigitsValue(m),
                              day |-> DigitsValue(d), hour |-> 0, minute |-> 0])

\* (mutant: the minute is not set)
replace_MinuteDropped(date_obj, hour, minute) ==
    IF hour \in 0..23 /\ minute \in 0..59
    THEN Return([date_obj EXCEPT !.hour = hour])
    ELSE Raise("ValueError")
\* date_obj.replace(hour=hour, minute=minute)
replace(date_obj, hour, minute) ==
    IF hour \in 0..23 /\ minute \in 0..59
    THEN Return([date_obj EXCEPT !.hour = hour, !.minute = minute])
    ELSE Raise("ValueError")

\* a number in at least width decimal digits
Padded(n, width) == zfill(ToString(n), width)

\* datetime.isoformat() of a datetime whose seconds are zero
isoformat(dt) ==
    Padded(dt.year, 4) \o "-" \o Padded(dt.month, 2) \o "-" \o Padded(dt.day, 2)
    \o "T" \o Padded(dt.hour, 2) \o ":" \o Padded(dt.minute, 2) \o ":00"

\* (mutant: a date that does not parse leaves the cell empty)
DateTimeObject_EmptyOnFailure(record_date) ==
    IF record_date = NONE \/ record_date = "" THEN ""
    ELSE LET date_obj == strptime(record_date)
         IN  IF date_obj.raised = "none" THEN isoformat(date_obj.value) ELSE ""
\* the cell DateTime_Object of a record
DateTimeObject(record_date) ==
    IF record_date = NONE \/ record_date = "" THEN ""
    ELSE LET date_obj == strptime(record_date)
         IN  IF date_obj.raised = "none" THEN isoformat(date_obj.value)
             ELSE record_date

\* (mutant: a Date or an Hour that does not parse leaves the cell empty)
DateTimeFull_EmptyOnFailure(record_date, record_hour) ==
    IF record_date = NONE \/ record_date = "" \/ record_hour = "" THEN ""
    ELSE LET date_obj == strptime(record_date)
             hour_str == zfill(record_hour, 4)
             hour == int(SubSeq(hour_str, 1, 2))
             minute == int(SubSeq(hour_str, 3, Len(hour_str)))
         IN  IF date_obj.raised # "none" \/ hour.raised # "none"
                \/ minute.raised # "none"
             THEN ""
             ELSE IF hour.value \in 0..23 /\ minute.value \in 0..59
             THEN isoformat([date_obj.value EXCEPT !.hour = hour.value,
                                                   !.minute = minute.value])
             ELSE ""
\* the cell DateTime_Full of a record
DateTimeFull(record_date, record_hour) ==
    IF record_date = NONE \/ record_date = "" \/ record_hour = "" THEN ""
    ELSE LET date_obj == strptime(record_date)
             hour_str == zfill(record_hour, 4)
             hour == int(SubSeq(hour_str, 1, 2))
             minute == IF Len(hour_str) > 2 THEN int(SubSeq(hour_str, 3, Len(hour_str)))
                       ELSE Return(0)
             failed == record_date \o " " \o record_hour
         IN  IF date_obj.raised # "none" \/ hour.raised # "none"
                \/ minute.raised # "none"
             THEN failed
             ELSE LET full_datetime == replace(date_obj.value, hour.value, minute.value)
                  IN  IF full_datetime.raised # "none" THEN failed
                      ELSE isoformat(full_datetime.value)

\* row[k] = v
Assign(row, k, v) == [x \in DOMAIN row \cup {k} |-> IF x = k THEN v ELSE row[x]]

\* x or ''
OrEmpty(x) == IF x = NONE \/ x = "" THEN "" ELSE x

\* the loop over sorted_data_items that adds a record's data values to its row
RECURSIVE AddDataValues(_, _, _)
AddDataValues(row, record, items_sorted) ==
    IF items_sorted = <<>> THEN row
    ELSE LET item == Head(items_sorted)
             name == clean_item_name(item)
             present == item \in DOMAIN record.data_values
             value == IF present THEN OrEmpty(record.data_values[item].value) ELSE ""
             qc == IF present THEN record.data_values[item].qc ELSE ""
             unit == IF present THEN record.data_values[item].unit ELSE ""
         IN  AddDataValues(
                 Assign(Assign(Assign(row, name \o "_Value", value),
                               name \o "_QC", qc),
                        name \o "_Unit", unit),
                 record, Tail(items_sorted))

\* the row dict of one record
RowDict(provider, record, columns, items_sorted) ==
    LET base == "Provider_Name" :> provider.name
                @@ "Provider_Type" :> provider.type
                @@ "Date" :> record.date
                @@ "Julian" :> record.julian
                @@ "Station" :> OrEmpty(record.station)
                @@ "Standard" :> record.standard
                @@ "ZipCodes" :> record.zip_codes
                @@ "Scope" :> record.scope
        date == Assign(base, "DateTime_Object", DateTimeObject(record.date))
        hour == IF "Hour" \in Range(columns)
                THEN Assign(date, "Hour", OrEmpty(record.hour)) ELSE date
        full == IF "Hour" \in Range(columns) /\ "DateTime_Full" \in Range(columns)
                THEN Assign(hour, "DateTime_Full",
                            DateTimeFull(record.date, OrEmpty(record.hour)))
                ELSE hour
    IN  AddDataValues(full, record, items_sorted)

\* csv.DictWriter.writerow: one cell for each column, '' for a column the row
\* dict has no key for
WriteRow(row, columns) == [i \in 1..Len(columns) |-> Get(row, columns[i], "")]

\* (mutant: no record is skipped)
RECURSIVE ProviderRows_NoSkip(_, _, _, _, _)
ProviderRows_NoSkip(provider, precs, recs, columns, items_sorted) ==
    IF precs = <<>> THEN <<>>
    ELSE <<WriteRow(RowDict(provider, Head(precs), columns, items_sorted), columns)>>
         \o ProviderRows_NoSkip(provider, Tail(precs), recs, columns, items_sorted)
\* the rows of one provider: its records that are in the list to include
RECURSIVE ProviderRows(_, _, _, _, _)
ProviderRows(provider, precs, recs, columns, items_sorted) ==
    IF precs = <<>> THEN <<>>
    ELSE (IF Head(precs) \in Range(recs)
          THEN <<WriteRow(RowDict(provider, Head(precs), columns, items_sorted),
                          columns)>>
          ELSE <<>>)
         \o ProviderRows(provider, Tail(precs), recs, columns, items_sorted)

CsvRows(wd, recs, columns, items_sorted) ==
    Flatten([i \in 1..Len(wd.providers) |->
                ProviderRows(wd.providers[i], wd.providers[i].records, recs,
                             columns, items_sorted)])

\* a file whose writing has ended and that was closed; items is the call's
\* sorted_data_items, kept beside the content
CsvFile(scope_type, items_sorted, columns, rows) ==
    [complete |-> TRUE, scope_type |-> scope_type, items |-> items_sorted,
     header |-> columns, rows |-> rows]

\* a file that was opened for writing, when a write failed: what of the
\* content had reached the disk is not determined, the model keeps none of it
PartialFile(scope_type) ==
    [complete |-> FALSE, scope_type |-> scope_type, items |-> <<>>,
     header |-> <<>>, rows |-> <<>>]

\* the steps of writing a file that the file system can fail
FaultSteps == {"mkdir", "open", "write"}

\* (mutant: a file-system failure is raised as CimisDataError)
FileSystemError_Wrapped(step) == "CimisDataError"
\* filename.parent.mkdir, open and the writer's writes are not inside any try:
\* the OSError of a failed step leaves the method as it is
FileSystemError(step) == "OSError"

\* _export_records_to_csv(weather_data, records, filename, scope_type), on the
\* file system fs, with the step the file system fails ("none": no step fails)
export_records_to_csv(wd, recs, filename, scope_type, fault, fs) ==
    LET items_sorted ==
            sorted_data_items(filter_data_items(all_data_items(recs), scope_type))
        all_columns == base_columns(scope_type) \o data_columns(items_sorted)
    IN  IF fault \in {"mkdir", "open"}
        THEN [raised |-> FileSystemError(fault), returned |-> NONE, files |-> fs]
        ELSE IF fault = "write"
        THEN [raised |-> FileSystemError(fault), returned |-> NONE,
              files |-> Assign(fs, filename, PartialFile(scope_type))]
        ELSE [raised |-> "none", returned |-> filename,
              files |-> Assign(fs, filename,
                               CsvFile(scope_type, items_sorted, all_columns,
                                       CsvRows(wd, recs, all_columns, items_sorted)))]

----------------------------------------------------------------------------
(* client.py: CimisClient.export_to_csv *)

\* which file of a call the file system fails, and at which step
NoFault == [file |-> 0, step |-> "none"]
FaultAt(fault, k) == IF fault.file = k THEN fault.step ELSE "none"

\* (mutant: every record that is not hourly is taken as daily)
IsDaily_NotHourly(record) == record.scope # "hourly"
IsDaily(record) == record.scope = "daily"
\* (mutant: no record is taken as hourly)
IsHourly_Never(record) == FALSE
IsHourly(record) == record.scope = "hourly"

\* (mutant: the test for an empty record list is missing)
NoRecords_Never(all_records) == FALSE
\* if not all_records
NoRecords(all_records) == all_records = <<>>

\* (mutant: a failure of the second file takes the first file back)
SecondFile_AllOrNothing(first, wd, recs, filename, scope_type, fault) ==
    IF first.raised # "none" THEN first
    ELSE LET second == export_records_to_csv(wd, recs, filename, scope_type,
                                             fault, first.files)
         IN  IF second.raised # "none"
             THEN [second EXCEPT !.files = EmptyDict]
             ELSE second
\* the second file of a separated export is written only when the writing of
\* the first has returned: an exception of the first call ends export_to_csv
SecondFile(first, wd, recs, filename, scope_type, fault) ==
    IF first.raised # "none" THEN first
    ELSE export_records_to_csv(wd, recs, filename, scope_type, fault, first.files)

\* return f"Daily: {daily_filename}, Hourly: {hourly_filename}"
BothFiles(second, daily_filename, hourly_filename) ==
    IF second.raised # "none" THEN second
    ELSE [raised |-> "none",
          returned |-> "Daily: " \o daily_filename \o ", Hourly: " \o hourly_filename,
          files |-> second.files]

\* export_to_csv(weather_data, filename, separate_daily_hourly=separate) on the
\* file system fs; fault is the step the file system fails, if any
export_to_csv(wd, filename, separate, fault, fs) ==
    LET fname == IF filename = NONE THEN generate_for_weather_data(wd) ELSE filename
        all_records == get_all_records(wd)
        daily_records == SelectSeq(all_records, IsDaily)
        hourly_records == SelectSeq(all_records, IsHourly)
        daily_filename == stem(fname) \o "_daily" \o suffix(fname)
        hourly_filename == stem(fname) \o "_hourly" \o suffix(fname)
    IN  IF NoRecords(all_records)
        THEN [raised |-> "CimisDataError", returned |-> NONE, files |-> fs]
        ELSE IF separate /\ daily_records # <<>> /\ hourly_records # <<>>
        THEN BothFiles(
                 SecondFile(
                     export_records_to_csv(wd, daily_records, daily_filename,
                                           "daily", FaultAt(fault, 1), fs),
                     wd, hourly_records, hourly_filename, "hourly",
                     FaultAt(fault, 2)),
                 daily_filename, hourly_filename)
        ELSE IF separate /\ daily_records # <<>>
        THEN export_records_to_csv(wd, daily_records, fname, "daily",
                                   FaultAt(fault, 1), fs)
        ELSE IF separate /\ hourly_records # <<>>
        THEN export_records_to_csv(wd, hourly_records, fname, "hourly",
                                   FaultAt(fault, 1), fs)
        ELSE export_records_to_csv(wd, all_records, fname, "mixed",
                                   FaultAt(fault, 1), fs)

----------------------------------------------------------------------------
(* endpoints.py: CimisEndpoints, the default catalogs of data items *)

DEFAULT_DAILY_DATA_ITEMS ==
    <<"day-air-tmp-avg", "day-air-tmp-max", "day-air-tmp-min",
      "day-dew-pnt", "day-eto", "day-asce-eto", "day-asce-etr",
      "day-precip", "day-rel-hum-avg", "day-rel-hum-max", "day-rel-hum-min",
      "day-soil-tmp-avg", "day-soil-tmp-max", "day-soil-tmp-min",
      "day-sol-rad-avg", "day-sol-rad-net", "day-vap-pres-max",
      "day-vap-pres-avg", "day-wind-ene", "day-wind-ese", "day-wind-nne",
      "day-wind-nnw", "day-wind-run", "day-wind-spd-avg", "day-wind-ssw",
      "day-wind-wnw", "day-wind-wsw">>

DEFAULT_HOURLY_DATA_ITEMS ==
    <<"hly-air-tmp", "hly-dew-pnt", "hly-eto", "hly-net-rad",
      "hly-asce-eto", "hly-asce-etr", "hly-precip", "hly-rel-hum",
      "hly-res-wind", "hly-soil-tmp", "hly-sol-rad", "hly-vap-pres",
      "hly-wind-dir", "hly-wind-spd">>

----------------------------------------------------------------------------
(* endpoints.py: CimisEndpoints, the URLs *)

BASE_URL == "https://et.water.ca.gov/api"

\* a template of ENDPOINTS: its text up to the replacement field, and the name
\* of the field (NONE: the template has none); no template has text after it
Template(text, field) == [text |-> text, field |-> field]

ENDPOINTS ==
    [data |-> Template("data", NONE),
     station |-> Template("station/", "station_id"),
     stations |-> Template("station", NONE),
     zip_code |-> Template("stationzipcode/", "zip_code"),
     zip_codes |-> Template("stationzipcode", NONE),
     spatial_zip_code |-> Template("spatialzipcode/", "zip_code"),
     spatial_zip_codes |-> Template("spatialzipcode", NONE)]

\* endpoint_template.format(**kwargs): a field whose keyword is missing raises
\* KeyError, a keyword without a field is ignored
format(template, kwargs) ==
    IF template.field = NONE THEN Return(template.text)
    ELSE IF template.field \notin DOMAIN kwargs THEN Raise("KeyError")
    ELSE Return(template.text \o kwargs[template.field])

\* CimisEndpoints.get_url(endpoint, **kwargs)
get_url(endpoint, kwargs) ==
    IF endpoint \notin DOMAIN ENDPOINTS THEN Raise("ValueError")
    ELSE LET formatted == format(ENDPOINTS[endpoint], kwargs)
         IN  IF formatted.raised # "none" THEN formatted
             ELSE Return(BASE_URL \o "/" \o formatted.value)

\* the truth value of an optional str: None and '' are false
Truthy(x) == x # NONE /\ x # ""

(* endpoints.py: the module-level helpers *)

get_data_endpoint == get_url("data", EmptyDict)

get_station_endpoint(station_id) ==
    IF Truthy(station_id)
    THEN get_url("station_by_id", "station_id" :> station_id)
    ELSE get_url("station", EmptyDict)

get_station_zipcode_endpoint(zipcode) ==
    IF Truthy(zipcode)
    THEN get_url("station_zipcode_by_id", "zipcode" :> zipcode)
    ELSE get_url("station_zipcode", EmptyDict)

get_spatial_zipcode_endpoint(zipcode) ==
    IF Truthy(zipcode)
    THEN get_url("spatial_zipcode_by_id", "zipcode" :> zipcode)
    ELSE get_url("spatial_zipcode", EmptyDict)

----------------------------------------------------------------------------
(* The transport: what session.get(url, params, timeout) does *)

\* the body of a response: text that is no JSON, or JSON text whose value is
\* an object or an array
NoJson == [json |-> "no", value |-> EmptyDict]
JsonObject(o) == [json |-> "object", value |-> o]
JsonArray(a) == [json |-> "array", value |-> a]

\* session.get returns a response
Response(status_code, reason, body) ==
    [raises |-> "none", status_code |-> status_code, reason |-> reason,
     body |-> body]

\* session.get raises an exception of requests.exceptions, str(e) its text
Failure(exc, text) ==
    [raises |-> exc, status_code |-> 0, reason |-> text, body |-> NoJson]

----------------------------------------------------------------------------
(* exceptions.py, client.py: CimisClient._make_request *)

\* an exception of the CimisAPIError family: message, error_code, http_code
\* (None as the empty sequence, a code as a sequence of one element)
CimisAPIError(kind, message, error_code, http_code) ==
    [raised |-> kind, message |-> message, error_code |-> error_code,
     http_code |-> http_code]

\* any other exception, with its message
Exception(kind, message) ==
    [raised |-> kind, message |-> message, error_code |-> <<>>,
     http_code |-> <<>>]

NoException == Exception("none", "")

\* how a call of _make_request ends: the exception it raises or the value it
\* returns (a body), and the number of calls of session.get it has made
Requested(exception, value, gets) ==
    [raised |-> exception.raised, exception |-> exception, value |-> value,
     gets |-> gets]

\* the branch of status 404
NotFound(body) ==
    IF body.json = "no"
    THEN CimisAPIError("CimisAPIError", "Resource not found", <<>>, <<404>>)
    ELSE IF body.json = "object"
    THEN CimisAPIError("CimisAPIError",
                       Get(body.value, "Message", "Resource not found"),
                       <<>>, <<404>>)
    ELSE Exception("AttributeError", "'list' object has no attribute 'get'")

\* what follows session.get once it has returned or raised
HandleResponse(transport) ==
    IF transport.raises = "Timeout"
    THEN Exception("CimisConnectionError", "Request timeout")
    ELSE IF transport.raises = "ConnectionError"
    THEN Exception("CimisConnectionError",
                   "Connection error: " \o transport.reason)
    ELSE IF transport.raises = "RequestException"
    THEN Exception("CimisConnectionError",
                   "Request error: " \o transport.reason)
    ELSE IF transport.status_code = 403
    THEN CimisAPIError("CimisAuthenticationError", "Invalid API key",
                       <<"ERR1006">>, <<403>>)
    ELSE IF transport.status_code = 404
    THEN NotFound(transport.body)
    ELSE IF transport.status_code # 200
    THEN CimisAPIError("CimisAPIError",
                       "HTTP " \o ToString(transport.status_code) \o ": "
                       \o transport.reason,
                       <<>>, <<transport.status_code>>)
    ELSE IF transport.body.json = "no"
    THEN Exception("CimisDataError", "Invalid JSON response")
    ELSE NoException

\* (mutant: a request that timed out is sent once more)
make_request_RetryOnTimeout(endpoint_key, endpoint_kwargs, transport) ==
    LET url == get_url(endpoint_key, endpoint_kwargs)
    IN  IF url.raised # "none"
        THEN Requested(Exception(url.raised, ""), NoJson, 0)
        ELSE Requested(HandleResponse(transport), transport.body,
                       IF transport.raises = "Timeout" THEN 2 ELSE 1)
\* _make_request(endpoint_key, params, **endpoint_kwargs), transport being
\* what session.get does when it is called
make_request(endpoint_key, endpoint_kwargs, transport) ==
    LET url == get_url(endpoint_key, endpoint_kwargs)
    IN  IF url.raised # "none"
        THEN Requested(Exception(url.raised, ""), NoJson, 0)
        ELSE Requested(HandleResponse(transport), transport.body, 1)

----------------------------------------------------------------------------
(* models.py, endpoints.py: stations and zip codes *)

UpperCase == "ABCDEFGHIJKLMNOPQRSTUVWXYZ"
LowerCase == "abcdefghijklmnopqrstuvwxyz"

\* s.lower(), for ASCII text
RECURSIVE lower(_)
lower(s) ==
    IF s = "" THEN ""
    ELSE LET c == CharAt(s, 1)
             at == {i \in 1..Len(UpperCase) : CharAt(UpperCase, i) = c}
         IN  (IF at = {} THEN c ELSE CharAt(LowerCase, CHOOSE i \in at : TRUE))
             \o lower(SubSeq(s, 2, Len(s)))

\* str(x), for a value that is a str
str(x) == x

Station(station_nbr, name, city, regional_office, county, connect_date, disconnect_date, is_active, is_eto_station, elevation, ground_cover, hms_latitude, hms_longitude, zip_codes, siting_desc) ==
    [station_nbr |-> station_nbr, name |-> name, city |-> city,
     regional_office |-> regional_office, county |-> county,
     connect_date |-> connect_date, disconnect_date |-> disconnect_date,
     is_active |-> is_active, is_eto_station |-> is_eto_station,
     elevation |-> elevation, ground_cover |-> ground_cover,
     hms_latitude |-> hms_latitude, hms_longitude |-> hms_longitude,
     zip_codes |-> zip_codes, siting_desc |-> siting_desc]

ZipCode(zip_code, station_nbr, connect_date, disconnect_date, is_active) ==
    [zip_code |-> zip_code, station_nbr |-> station_nbr,
     connect_date |-> connect_date, disconnect_date |-> disconnect_date,
     is_active |-> is_active]

SpatialZipCode(zip_code, city, county, connect_date, disconnect_date, is_active) ==
    [zip_code |-> zip_code, city |-> city, county |-> county,
     connect_date |-> connect_date, disconnect_date |-> disconnect_date,
     is_active |-> is_active]

\* one pass of the loop of parse_stations_response
MapStation(station_data) ==
    Station(Get(station_data, "StationNbr", ""),
            Get(station_data, "Name", ""),
            Get(station_data, "City", ""),
            Get(station_data, "RegionalOffice", NONE),
            Get(station_data, "County", NONE),
            Get(station_data, "ConnectDate", ""),
            Get(station_data, "DisconnectDate", ""),
            lower(Get(station_data, "IsActive", "True")) = "true",
            lower(Get(station_data, "IsEtoStation", "True")) = "true",
            Get(station_data, "Elevation", ""),
            Get(station_data, "GroundCover", ""),
            Get(station_data, "HmsLatitude", ""),
            Get(station_data, "HmsLongitude", ""),
            Get(station_data, "ZipCodes", <<>>),
            Get(station_data, "SitingDesc", ""))

MapZipCode(zip_data) ==
    ZipCode(Get(zip_data, "ZipCode", ""),
            str(Get(zip_data, "StationNbr", "")),
            Get(zip_data, "ConnectDate", ""),
            Get(zip_data, "DisconnectDate", ""),
            lower(Get(zip_data, "IsActive", "True")) = "true")

MapSpatialZipCode(zip_data) ==
    SpatialZipCode(Get(zip_data, "ZipCode", ""),
                   Get(zip_data, "City", ""),
                   Get(zip_data, "County", ""),
                   Get(zip_data, "ConnectDate", ""),
                   Get(zip_data, "DisconnectDate", ""),
                   lower(Get(zip_data, "IsActive", "True")) = "true")

\* parse_data_response on the value _make_request returned: of an array that
\* does not hold the string 'Data', 'Data' not in data is true
parse_data_body(body) ==
    IF body.json = "object" THEN parse_data_response(body.value)
    ELSE Return(WeatherData(<<>>))

\* data.get('Stations', []) of a value that is no object raises AttributeError
parse_stations_response(body) ==
    IF body.json # "object" THEN Raise("AttributeError")
    ELSE LET stations == Get(body.value, "Stations", <<>>)
         IN  Return([i \in 1..Len(stations) |-> MapStation(stations[i])])

parse_zip_codes_response(body) ==
    IF body.json # "object" THEN Raise("AttributeError")
    ELSE LET zip_codes == Get(body.value, "ZipCodes", <<>>)
         IN  Return([i \in 1..Len(zip_codes) |-> MapZipCode(zip_codes[i])])

parse_spatial_zip_codes_response(body) ==
    IF body.json # "object" THEN Raise("AttributeError")
    ELSE LET zip_codes == Get(body.value, "ZipCodes", <<>>)
         IN  Return([i \in 1..Len(zip_codes) |->
                        MapSpatialZipCode(zip_codes[i])])

----------------------------------------------------------------------------
(* client.py: the fetch operations *)

\* how a fetch operation ends: what it raises or returns, the call of
\* _make_request it made, whether it went on to map the response, and the
\* file system
Fetch(raised, returned, csv_filename, request, mapped, fs) ==
    [raised |-> raised, returned |-> returned, csv_filename |-> csv_filename,
     request |-> request, gets |-> request.gets, mapped |-> mapped,
     files |-> fs]

\* a fetch operation without csv export: the request, then the mapping of the
\* value it returned; an exception of the request ends the operation
FetchAndMap(request, parsed, fs) ==
    IF request.raised # "none"
    THEN Fetch(request.raised, NONE, NONE, request, FALSE, fs)
    ELSE Fetch(parsed.raised, parsed.value, NONE, request, TRUE, fs)

\* get_data(targets, start_date, end_date, ...): the parameters of the request
\* do not reach the state, the answer of the transport is the environment's
get_data(transport, fs) ==
    LET request == make_request("data", EmptyDict, transport)
    IN  FetchAndMap(request, parse_data_body(request.value), fs)

\* (mutant: the daily filter drops the hourly records only)
filter_daily_only_NotHourly(wd) ==
    LET Kept(record) == record.scope # "hourly"
        Filtered(provider) ==
            WeatherProvider(provider.name, provider.type, provider.owner,
                            SelectSeq(provider.records, Kept))
        NotEmpty(provider) == provider.records # <<>>
    IN  WeatherData(SelectSeq([i \in 1..Len(wd.providers) |->
                                  Filtered(wd.providers[i])], NotEmpty))
\* _filter_daily_only(weather_data)
filter_daily_only(wd) ==
    LET Kept(record) == record.scope = "daily"
        Filtered(provider) ==
            WeatherProvider(provider.name, provider.type, provider.owner,
                            SelectSeq(provider.records, Kept))
        NotEmpty(provider) == provider.records # <<>>
    IN  WeatherData(SelectSeq([i \in 1..Len(wd.providers) |->
                                  Filtered(wd.providers[i])], NotEmpty))

\* _filter_hourly_only(weather_data)
filter_hourly_only(wd) ==
    LET Kept(record) == record.scope = "hourly"
        Filtered(provider) ==
            WeatherProvider(provider.name, provider.type, provider.owner,
                            SelectSeq(provider.records, Kept))
        NotEmpty(provider) == provider.records # <<>>
    IN  WeatherData(SelectSeq([i \in 1..Len(wd.providers) |->
                                  Filtered(wd.providers[i])], NotEmpty))

\* (mutant: the filter removes the records from the providers it was given)
FilterArgument_InPlace(wd, filtered) == filtered
\* the WeatherData passed to _filter_daily_only or _filter_hourly_only, as the
\* call leaves it: the filters build a new WeatherData with new providers and
\* assign nothing to the one they read
FilterArgument(wd, filtered) == wd

\* the WeatherData passed to export_to_csv, as the call leaves it: the export
\* reads the providers and the records and assigns to none of them
ExportArgument(wd) == wd

\* the end of get_daily_data and get_hourly_data: the filtered data are
\* returned, with the name of the file when csv is true
ExportFetched(fetched, filtered, csv, exported) ==
    IF ~csv
    THEN Fetch("none", filtered, NONE, fetched.request, TRUE, fetched.files)
    ELSE IF exported.raised # "none"
    THEN Fetch(exported.raised, NONE, NONE, fetched.request, TRUE,
               exported.files)
    ELSE Fetch("none", filtered, exported.returned, fetched.request, TRUE,
               exported.files)

\* get_daily_data(..., csv, filename): export_to_csv is called with its
\* default separate_daily_hourly=True
get_daily_data(csv, filename, transport, fault, fs) ==
    LET fetched == get_data(transport, fs)
    IN  IF fetched.raised # "none" THEN fetched
        ELSE ExportFetched(fetched, filter_daily_only(fetched.returned), csv,
                           export_to_csv(filter_daily_only(fetched.returned),
                                         filename, TRUE, fault, fs))

\* get_hourly_data(..., csv, filename): separate_daily_hourly=False
get_hourly_data(csv, filename, transport, fault, fs) ==
    LET fetched == get_data(transport, fs)
    IN  IF fetched.raised # "none" THEN fetched
        ELSE ExportFetched(fetched, filter_hourly_only(fetched.returned), csv,
                           export_to_csv(filter_hourly_only(fetched.returned),
                                         filename, FALSE, fault, fs))

\* get_stations(station_number)
get_stations(station_number, transport, fs) ==
    LET request ==
            IF Truthy(station_number)
            THEN make_request("station", "station_id" :> station_number,
                              transport)
            ELSE make_request("stations", EmptyDict, transport)
    IN  FetchAndMap(request, parse_stations_response(request.value), fs)

\* get_station_zip_codes(zip_code)
get_station_zip_codes(zip_code, transport, fs) ==
    LET request ==
            IF Truthy(zip_code)
            THEN make_request("zip_code", "zip_code" :> zip_code, transport)
            ELSE make_request("zip_codes", EmptyDict, transport)
    IN  FetchAndMap(request, parse_zip_codes_response(request.value), fs)

\* get_spatial_zip_codes(zip_code)
get_spatial_zip_codes(zip_code, transport, fs) ==
    LET request ==
            IF Truthy(zip_code)
            THEN make_request("spatial_zip_code", "zip_code" :> zip_code,
                              transport)
            ELSE make_request("spatial_zip_codes", EmptyDict, transport)
    IN  FetchAndMap(request, parse_spatial_zip_codes_response(request.value),
                    fs)

----------------------------------------------------------------------------
(* The responses the mapper is given *)

\* all sequences over S of length at most n
SeqsUpTo(S, n) == UNION {[1..k -> S] : k \in 0..n}

\* all dicts whose key set is a subset of Keys of at most n keys, values in Values
DictsUpTo(Keys, Values, n) ==
    UNION {[K -> Values] : K \in {K \in SUBSET Keys : Cardinality(K) <= n}}

\* item names of a response: two of the API's names and one it does not know
ResponseItemKeys == {"DayEto", "HlyAir", "Zeta"}

\* what a key of a record object may hold besides a fixed field: a scalar, or an
\* object with any of the keys Value, Qc, Unit (Value may be null)
ItemObjects ==
    {v @@ q @@ u :
        v \in {EmptyDict, "Value" :> "0.12", "Value" :> NONE},
        q \in {EmptyDict, "Qc" :> "Y"},
        u \in {EmptyDict, "Unit" :> "in"}}

ItemValues == {JStr("12")} \cup {JObj(o) : o \in ItemObjects}

\* the fixed fields of a record object: each present or missing
FixedFields ==
    {d @@ s @@ h :
        d \in {EmptyDict, "Date" :> JStr("2023-01-01") @@ "Julian" :> JStr("1")},
        s \in {EmptyDict, "Scope" :> JStr("daily"), "Scope" :> JStr("hourly")},
        h \in {EmptyDict, "Hour" :> JStr("0130")}}

RecordObjects ==
    {f @@ items : f \in FixedFields,
                  items \in DictsUpTo(ResponseItemKeys, ItemValues, MaxItems)}

\* responses of one provider with one record, the record object varied
RecordResponses ==
    {"Data" :> ("Providers" :> <<("Name" :> "N" @@ "Records" :> <<r>>)>>) :
        r \in RecordObjects}

\* two record objects that differ, for the responses that vary the shape
DailyRecordObject ==
    "Date" :> JStr("2023-01-01") @@ "Julian" :> JStr("1") @@ "Station" :> JStr("2")
    @@ "Scope" :> JStr("daily")
    @@ "day-eto" :> JObj("Value" :> "0.12" @@ "Qc" :> " " @@ "Unit" :> "in")
HourlyRecordObject ==
    "Date" :> JStr("2023-01-01") @@ "Julian" :> JStr("1") @@ "Station" :> JStr("2")
    @@ "Scope" :> JStr("hourly") @@ "Hour" :> JStr("0130")
    @@ "HlyAir" :> JObj("Value" :> "55")

ProviderObjects ==
    {a @@ r :
        a \in {EmptyDict, "Name" :> "N" @@ "Type" :> "station" @@ "Owner" :> "O"},
        r \in {EmptyDict} \cup
              {"Records" :> rs :
                  rs \in SeqsUpTo({DailyRecordObject, HourlyRecordObject}, MaxRecords)}}

\* the number of record objects of a list of provider objects
RECURSIVE CountRecords(_)
CountRecords(ps) ==
    IF ps = <<>> THEN 0
    ELSE Len(Get(Head(ps), "Records", <<>>)) + CountRecords(Tail(ps))

\* responses that vary the number of providers and of records
ShapeResponses ==
    {"Data" :> ("Providers" :> ps) :
        ps \in {ps \in SeqsUpTo(ProviderObjects, MaxProviders) :
                   CountRecords(ps) <= MaxRecords}}

\* responses without the Data key, or whose Data object has no Providers key
SparseResponses ==
    {EmptyDict, "Message" :> "error", "Data" :> EmptyDict,
     "Data" :> ("Message" :> "error")}

Responses == SparseResponses \cup ShapeResponses \cup RecordResponses

----------------------------------------------------------------------------
(* The mapper as a state machine: a response arrives, one of the two copies  *)
(* of the mapper is called on it once.                                       *)

NoOutcome == [op |-> "none", raised |-> "none"]

InitMapper ==
    /\ data \in Responses
    /\ weather_data = WeatherData(<<>>)
    /\ records = <<>>
    /\ insertion = <<>>
    /\ files = EmptyDict
    /\ outcome = NoOutcome

Mapped(op, r) ==
    /\ outcome' = [op |-> op, raised |-> r.raised]
    /\ weather_data' = IF r.raised = "none" THEN r.value ELSE weather_data
    /\ UNCHANGED <<data, records, insertion, files>>

ParseDataResponse ==
    /\ outcome.op = "none"
    /\ Mapped("parse_data_response", parse_data_response(data))

ClientParseDataResponse ==
    /\ outcome.op = "none"
    /\ Mapped("_parse_data_response", client_parse_data_response(data))

NextMapper == ParseDataResponse \/ ClientParseDataResponse

SpecMapper == InitMapper /\ [][NextMapper]_vars

----------------------------------------------------------------------------
(* The WeatherData the projector is given *)

\* item names: with the daily prefix, with the hourly prefix, with neither
\* (among them the names of the default catalogs, which are lower-case)
ExportItemKeys == {"DayEto", "HlyEto", "HlyAir", "Eto", "day-eto", "hly-air-tmp"}

ProviderAt(i, recs) ==
    WeatherProvider("P" \o ToString(i), IF i = 1 THEN "station" ELSE "spatial",
                    "O", recs)

\* one provider with one record, the item keys of the record varied
ItemRecords ==
    {WeatherRecord("2023-01-01", "1", "2", "english", "", scope,
                   IF scope = "hourly" THEN "0130" ELSE NONE,
                   [k \in K |-> DataValue("v " \o k, "Y", "mm")]) :
        scope \in {"daily", "hourly"},
        K \in {K \in SUBSET ExportItemKeys : Cardinality(K) <= MaxItems}}

ItemWeatherDatas == {WeatherData(<<ProviderAt(1, <<r>>)>>) : r \in ItemRecords}

\* three records that differ in scope and items, for the data that vary the
\* number of providers and of records
DailyRecord ==
    WeatherRecord("2023-01-01", "1", "2", "english", "", "daily", NONE,
                  "day-eto" :> DataValue("0.12", " ", "in")
                  @@ "DayEto" :> DataValue(NONE, "M", ""))
HourlyRecord ==
    WeatherRecord("2023-01-01", "1", "2", "english", "", "hourly", "0130",
                  "HlyEto" :> DataValue("55", "Y", "F"))
OtherRecord ==
    WeatherRecord("2023-01-02", "2", NONE, "metric", "95616", "monthly", NONE,
                  "Eto" :> DataValue("3.1", " ", "mm"))

RecordLists == SeqsUpTo({DailyRecord, HourlyRecord, OtherRecord}, MaxRecords)

\* the record lists of at most p providers that hold at most n records together
RECURSIVE ProviderLists(_, _)
ProviderLists(p, n) ==
    IF p = 0 THEN {<<>>}
    ELSE {<<>>} \cup
         UNION {{<<list>> \o rest : rest \in ProviderLists(p - 1, n - Len(list))} :
                   list \in {l \in RecordLists : Len(l) <= n}}

ShapeWeatherDatas ==
    {WeatherData([i \in 1..Len(lists) |-> ProviderAt(i, lists[i])]) :
        lists \in ProviderLists(MaxProviders, MaxRecords)}

\* one provider with one hourly record, its Date and Hour varied: dates that
\* exist, dates that do not, text that is no date; hours of four digits, of
\* fewer and of more, out of range, not numeric, empty and None
RecordDates ==
    {"2023-01-01", "2024-02-29", "2023-1-5", "2023-02-30", "no-date", ""}
RecordHours ==
    {NONE, "", "0000", "0130", "2359", "07", "13", "24", "2400", "2500", "0160",
     "ab", "01ab", "12345", "00001"}

TimeRecords ==
    {WeatherRecord(date, "1", "2", "english", "", "hourly", hour,
                   "HlyAir" :> DataValue("55", "Y", "F")) :
        date \in RecordDates, hour \in RecordHours}

TimeWeatherDatas == {WeatherData(<<ProviderAt(1, <<r>>)>>) : r \in TimeRecords}

WeatherDatas == ItemWeatherDatas \cup ShapeWeatherDatas \cup TimeWeatherDatas

FilenameArgs == {NONE, "out.csv", "out"}

Faults == {NoFault} \cup [file : {1, 2}, step : FaultSteps]

----------------------------------------------------------------------------
(* export_to_csv as a state machine: the caller holds a WeatherData and calls *)
(* export_to_csv on it once; the file system may fail one step of the call.   *)

InitExport ==
    /\ data = EmptyDict
    /\ weather_data \in WeatherDatas
    /\ records = <<>>
    /\ insertion = <<>>
    /\ files = EmptyDict
    /\ outcome = NoOutcome

ExportToCsv ==
    /\ outcome.op \in {"none", "parse_data_response", "_parse_data_response"}
    /\ outcome.raised = "none"
    /\ records = <<>>
    /\ \E filename \in FilenameArgs, separate \in BOOLEAN, fault \in Faults :
       \E r \in {export_to_csv(weather_data, filename, separate, fault, files)} :
           /\ outcome' = [op |-> "export_to_csv", raised |-> r.raised,
                          returned |-> r.returned, filename |-> filename,
                          separate |-> separate, fault |-> fault]
           /\ files' = r.files
    /\ UNCHANGED <<data, weather_data, records, insertion>>

NextExport == ExportToCsv

SpecExport == InitExport /\ [][NextExport]_vars

----------------------------------------------------------------------------
(* The projector as a state machine: _export_records_to_csv is called on a    *)
(* WeatherData and a list of its records, once for each scope type, each call *)
(* writing a file of its own; a call that raises ends the run.                *)

\* the lists export_to_csv passes: all records, the daily ones, the hourly ones
IncludedLists(wd) ==
    {get_all_records(wd), SelectSeq(get_all_records(wd), IsDaily),
     SelectSeq(get_all_records(wd), IsHourly)} \ {<<>>}

ScopeTypes == {"daily", "hourly", "mixed"}

ProjectorFile(scope_type) == scope_type \o ".csv"

InitProjector ==
    /\ data = EmptyDict
    /\ weather_data \in WeatherDatas
    /\ records \in IncludedLists(weather_data)
    /\ insertion = <<>>
    /\ files = EmptyDict
    /\ outcome = NoOutcome

ExportRecordsToCsv ==
    /\ records # <<>>
    /\ outcome.raised = "none"
    /\ \E scope_type \in ScopeTypes, fault \in {"none"} \cup FaultSteps :
           /\ ProjectorFile(scope_type) \notin DOMAIN files
           /\ \E r \in {export_records_to_csv(weather_data, records,
                                                ProjectorFile(scope_type),
                                                scope_type, fault, files)} :
                  /\ outcome' = [op |-> "_export_records_to_csv",
                                 raised |-> r.raised]
                  /\ files' = r.files
    /\ UNCHANGED <<data, weather_data, records, insertion>>

NextProjector == ExportRecordsToCsv

SpecProjector == InitProjector /\ [][NextProjector]_vars

----------------------------------------------------------------------------
(* What the transport answers to the fetch operations *)

\* a record object of a scope that is neither daily nor hourly
MonthlyRecordObject ==
    "Date" :> JStr("2023-01-02") @@ "Julian" :> JStr("2")
    @@ "Scope" :> JStr("monthly")
    @@ "Eto" :> JObj("Value" :> "3.1" @@ "Unit" :> "mm")

FetchRecordObjects == {DailyRecordObject, HourlyRecordObject, MonthlyRecordObject}

\* the lists of record objects of at most p providers that hold at most n
\* record objects together
RECURSIVE RecordObjectLists(_, _)
RecordObjectLists(p, n) ==
    IF p = 0 THEN {<<>>}
    ELSE {<<>>} \cup
         UNION {{<<list>> \o rest : rest \in RecordObjectLists(p - 1, n - Len(list))} :
                   list \in SeqsUpTo(FetchRecordObjects, n)}

ProviderObjectAt(i, record_objects) ==
    "Name" :> ("N" \o ToString(i))
    @@ "Type" :> (IF i = 1 THEN "station" ELSE "spatial")
    @@ "Owner" :> "O"
    @@ "Records" :> record_objects

\* bodies of a data response: providers with daily, hourly and other records
DataBodies ==
    {JsonObject("Data" :> ("Providers" :>
                    [i \in 1..Len(lists) |-> ProviderObjectAt(i, lists[i])])) :
        lists \in RecordObjectLists(MaxProviders, MaxRecords)}

\* bodies any status may come with: no JSON, an array, an object without and
\* with a Message
PlainBodies ==
    {NoJson, JsonArray(<<>>), JsonObject(EmptyDict),
     JsonObject("Message" :> "Station not found")}

FullStationObject ==
    "StationNbr" :> "2" @@ "Name" :> "FivePoints" @@ "City" :> "Five Points"
    @@ "RegionalOffice" :> "South Central" @@ "County" :> "Fresno"
    @@ "ConnectDate" :> "6/7/1982" @@ "DisconnectDate" :> "12/31/2050"
    @@ "IsActive" :> "True" @@ "IsEtoStation" :> "False"
    @@ "Elevation" :> "285" @@ "GroundCover" :> "Grass"
    @@ "HmsLatitude" :> "36 / 36.336222" @@ "HmsLongitude" :> "-120 / -120.11291"
    @@ "ZipCodes" :> <<"93624">> @@ "SitingDesc" :> ""

SparseStationObject == "StationNbr" :> "5" @@ "IsActive" :> "FALSE"

StationBodies ==
    {JsonObject("Stations" :> stations) :
        stations \in SeqsUpTo({FullStationObject, SparseStationObject}, MaxRecords)}

FullZipObject ==
    "ZipCode" :> "93624" @@ "StationNbr" :> "2" @@ "City" :> "Five Points"
    @@ "County" :> "Fresno" @@ "ConnectDate" :> "6/7/1982"
    @@ "DisconnectDate" :> "12/31/2050" @@ "IsActive" :> "true"

SparseZipObject == "ZipCode" :> "95616" @@ "IsActive" :> "False"

ZipBodies ==
    {JsonObject("ZipCodes" :> zip_codes) :
        zip_codes \in SeqsUpTo({FullZipObject, SparseZipObject}, MaxRecords)}

\* the exceptions of requests.exceptions that session.get raises
Failures ==
    {Failure("Timeout", "timed out"), Failure("ConnectionError", "refused"),
     Failure("RequestException", "too many redirects")}

\* the reason phrases of the status codes of the model
Reason == (200 :> "OK") @@ (204 :> "No Content") @@ (403 :> "Forbidden")
          @@ (404 :> "Not Found") @@ (500 :> "Internal Server Error")

\* what session.get may do, Bodies being the bodies of a response of status 200
Transports(Bodies) ==
    Failures
    \cup {Response(status, Reason[status], body) :
             status \in DOMAIN Reason \ {200}, body \in PlainBodies}
    \cup {Response(200, Reason[200], body) : body \in PlainBodies \cup Bodies}

\* the arguments of get_stations, get_station_zip_codes, get_spatial_zip_codes
\* and of the module-level helpers
IdArgs == {NONE, "", "2"}

\* the file name and the failure of the file system of a fetch with csv=True
FetchFilenames == {NONE, "out.csv"}
FetchFaults == {NoFault, [file |-> 1, step |-> "open"]}

----------------------------------------------------------------------------
(* The request layer as a state machine: the caller makes one call, of a     *)
(* fetch operation or of a helper of endpoints.py; the transport answers a   *)
(* fetch operation in one of the ways above.                                 *)

InitFetch ==
    /\ data = EmptyDict
    /\ weather_data = WeatherData(<<>>)
    /\ records = <<>>
    /\ insertion = <<>>
    /\ files = EmptyDict
    /\ outcome = NoOutcome

\* no call was made yet
Idle == outcome.op = "none"

\* a fetch operation has ended as r
Fetched(op, arg, csv, filename, fault, transport, r) ==
    /\ outcome' = [op |-> op, arg |-> arg, csv |-> csv, filename |-> filename,
                   fault |-> fault, transport |-> transport,
                   raised |-> r.raised, returned |-> r.returned,
                   csv_filename |-> r.csv_filename, request |-> r.request,
                   gets |-> r.gets, mapped |-> r.mapped]
    /\ files' = r.files
    /\ data' = IF r.request.raised = "none" /\ r.request.value.json = "object"
               THEN r.request.value.value ELSE data
    /\ weather_data' =
           IF r.raised = "none"
              /\ op \in {"get_data", "get_daily_data", "get_hourly_data"}
           THEN r.returned ELSE weather_data
    /\ UNCHANGED <<records, insertion>>

GetData ==
    /\ Idle
    /\ \E transport \in Transports(DataBodies) :
       \E r \in {get_data(transport, files)} :
           Fetched("get_data", NONE, FALSE, NONE, NoFault, transport, r)

GetDailyData ==
    /\ Idle
    /\ \E transport \in Transports(DataBodies), csv \in BOOLEAN,
          filename \in FetchFilenames, fault \in FetchFaults :
           /\ csv \/ (filename = NONE /\ fault = NoFault)
           /\ \E r \in {get_daily_data(csv, filename, transport, fault, files)} :
                  Fetched("get_daily_data", NONE, csv, filename, fault,
                          transport, r)

GetHourlyData ==
    /\ Idle
    /\ \E transport \in Transports(DataBodies), csv \in BOOLEAN,
          filename \in FetchFilenames, fault \in FetchFaults :
           /\ csv \/ (filename = NONE /\ fault = NoFault)
           /\ \E r \in {get_hourly_data(csv, filename, transport, fault, files)} :
                  Fetched("get_hourly_data", NONE, csv, filename, fault,
                          transport, r)

GetStations ==
    /\ Idle
    /\ \E station_number \in IdArgs, transport \in Transports(StationBodies) :
       \E r \in {get_stations(station_number, transport, files)} :
           Fetched("get_stations", station_number, FALSE, NONE, NoFault,
                   transport, r)

GetStationZipCodes ==
    /\ Idle
    /\ \E zip_code \in IdArgs, transport \in Transports(ZipBodies) :
       \E r \in {get_station_zip_codes(zip_code, transport, files)} :
           Fetched("get_station_zip_codes", zip_code, FALSE, NONE, NoFault,
                   transport, r)

GetSpatialZipCodes ==
    /\ Idle
    /\ \E zip_code \in IdArgs, transport \in Transports(ZipBodies) :
       \E r \in {get_spatial_zip_codes(zip_code, transport, files)} :
           Fetched("get_spatial_zip_codes", zip_code, FALSE, NONE, NoFault,
                   transport, r)

\* a helper of endpoints.py has ended as r
Called(op, arg, r) ==
    /\ outcome' = [op |-> op, arg |-> arg, raised |-> r.raised,
                   returned |-> r.value]
    /\ UNCHANGED <<data, weather_data, records, insertion, files>>

GetDataEndpoint ==
    /\ Idle
    /\ Called("get_data_endpoint", NONE, get_data_endpoint)

GetStationEndpoint ==
    /\ Idle
    /\ \E station_id \in IdArgs :
           Called("get_station_endpoint", station_id,
                  get_station_endpoint(station_id))

GetStationZipcodeEndpoint ==
    /\ Idle
    /\ \E zipcode \in IdArgs :
           Called("get_station_zipcode_endpoint", zipcode,
                  get_station_zipcode_endpoint(zipcode))

GetSpatialZipcodeEndpoint ==
    /\ Idle
    /\ \E zipcode \in IdArgs :
           Called("get_spatial_zipcode_endpoint", zipcode,
                  get_spatial_zipcode_endpoint(zipcode))

NextFetch ==
    \/ GetData \/ GetDailyData \/ GetHourlyData
    \/ GetStations \/ GetStationZipCodes \/ GetSpatialZipCodes
    \/ GetDataEndpoint \/ GetStationEndpoint
    \/ GetStationZipcodeEndpoint \/ GetSpatialZipcodeEndpoint

SpecFetch == InitFetch /\ [][NextFetch]_vars

----------------------------------------------------------------------------
(* The caller keeps one WeatherData and calls the filters and export_to_csv  *)
(* on it, any number of times in any order.                                  *)

InitFrame ==
    /\ data = EmptyDict
    /\ weather_data \in ShapeWeatherDatas
    /\ records = <<>>
    /\ insertion = <<>>
    /\ files = EmptyDict
    /\ outcome = NoOutcome

FilterDailyOnly ==
    /\ \E r \in {filter_daily_only(weather_data)} :
           /\ outcome' = [op |-> "_filter_daily_only", raised |-> "none",
                          filtered |-> r]
           /\ weather_data' = FilterArgument(weather_data, r)
    /\ UNCHANGED <<data, records, insertion, files>>

FilterHourlyOnly ==
    /\ \E r \in {filter_hourly_only(weather_data)} :
           /\ outcome' = [op |-> "_filter_hourly_only", raised |-> "none",
                          filtered |-> r]
           /\ weather_data' = FilterArgument(weather_data, r)
    /\ UNCHANGED <<data, records, insertion, files>>

ExportKept ==
    /\ \E separate \in BOOLEAN :
       \E r \in {export_to_csv(weather_data, "out.csv", separate, NoFault, files)} :
           /\ outcome' = [op |-> "export_to_csv", raised |-> r.raised,
                          returned |-> r.returned, filename |-> "out.csv",
                          separate |-> separate, fault |-> NoFault]
           /\ files' = r.files
           /\ weather_data' = ExportArgument(weather_data)
    /\ UNCHANGED <<data, records, insertion>>

NextFrame == FilterDailyOnly \/ FilterHourlyOnly \/ ExportKept

SpecFrame == InitFrame /\ [][NextFrame]_vars

----------------------------------------------------------------------------
(* Two exports of records with the same item keys: the caller exports a list *)
(* of records, builds the records anew, in another order and with the keys   *)
(* of data_values inserted in another order, and exports again in the same   *)
(* mode.                                                                     *)

HeaderItemKeys == {"DayEto", "HlyAir", "Eto"}

\* the orders in which the keys K can have been inserted into a dict
InsertionOrders(K) == {o \in [1..Cardinality(K) -> K] : Range(o) = K}

\* a record with the item keys of an insertion order
HeaderRecord(order) ==
    WeatherRecord("2023-01-01", "1", "2", "english", "", "hourly", "0130",
                  [k \in Range(order) |-> DataValue("v " \o k, "Y", "mm")])

\* the insertion orders of the records of a list: one record, or two
HeaderInsertions ==
    LET orders == UNION {InsertionOrders(K) :
                            K \in {K \in SUBSET HeaderItemKeys :
                                      Cardinality(K) <= MaxItems}}
    IN  {<<o>> : o \in orders} \cup (orders \X orders)

RecordsInserted(orders) == [n \in 1..Len(orders) |-> HeaderRecord(orders[n])]

\* the item keys of the records with these insertion orders
InsertedKeys(orders) == UNION {Range(orders[n]) : n \in 1..Len(orders)}

\* the files of the first and of the second export
HeaderFiles == <<"first.csv", "second.csv">>

InitHeader ==
    /\ data = EmptyDict
    /\ insertion \in HeaderInsertions
    /\ records = RecordsInserted(insertion)
    /\ weather_data = WeatherData(<<ProviderAt(1, records)>>)
    /\ files = EmptyDict
    /\ outcome = [op |-> "none", raised |-> "none", exported |-> <<>>]

\* _export_records_to_csv on the records the caller holds; the second export
\* is in the mode of the first
ExportInOrder ==
    /\ outcome.raised = "none"
    /\ Len(outcome.exported) < Len(HeaderFiles)
    /\ outcome.op # "_export_records_to_csv"
    /\ \E scope_type \in ScopeTypes, fault \in {"none"} \cup FaultSteps :
           /\ \A n \in 1..Len(outcome.exported) :
                  outcome.exported[n].scope_type = scope_type
           /\ \E r \in {export_records_to_csv(
                            weather_data, records,
                            HeaderFiles[Len(outcome.exported) + 1],
                            scope_type, fault, files)} :
                  /\ outcome' =
                         [op |-> "_export_records_to_csv", raised |-> r.raised,
                          exported |->
                              IF r.raised # "none" THEN outcome.exported
                              ELSE Append(outcome.exported,
                                          [scope_type |-> scope_type,
                                           records |-> records,
                                           insertion |-> insertion])]
                  /\ files' = r.files
    /\ UNCHANGED <<data, weather_data, records, insertion>>

\* the caller builds records with the same item keys anew
Rearrange ==
    /\ outcome.op = "_export_records_to_csv"
    /\ outcome.raised = "none"
    /\ Len(outcome.exported) = 1
    /\ \E orders \in HeaderInsertions :
           /\ InsertedKeys(orders) = InsertedKeys(insertion)
           /\ insertion' = orders
           /\ records' = RecordsInserted(orders)
           /\ weather_data' = WeatherData(<<ProviderAt(1, RecordsInserted(orders))>>)
    /\ outcome' = [outcome EXCEPT !.op = "rearrange"]
    /\ UNCHANGED <<data, files>>

NextHeader == ExportInOrder \/ Rearrange

SpecHeader == InitHeader /\ [][NextHeader]_vars

----------------------------------------------------------------------------
(* The client as a whole *)

Init ==
    InitMapper \/ InitExport \/ InitProjector \/ InitFetch \/ InitFrame
    \/ InitHeader

Next ==
    \/ ParseDataResponse \/ ClientParseDataResponse \/ ExportToCsv
    \/ ExportRecordsToCsv \/ NextFetch \/ NextFrame \/ NextHeader

Spec == Init /\ [][Next]_vars

----------------------------------------------------------------------------
(* Claims about the mapper, checked under SpecMapper *)

\* a mapper call has returned
MapperReturned ==
    /\ outcome.op \in {"parse_data_response", "_parse_data_response"}
    /\ outcome.raised = "none"

HasProviders == "Data" \in DOMAIN data /\ "Providers" \in DOMAIN data["Data"]

\* the provider objects of the response, and the record objects of the i-th
InputProviders == data["Data"]["Providers"]
InputRecords(i) ==
    IF "Records" \in DOMAIN InputProviders[i] THEN InputProviders[i]["Records"]
    ELSE <<>>

\* the mapped tree has the shape of the response
SameShape ==
    /\ Len(weather_data.providers) = Len(InputProviders)
    /\ \A i \in 1..Len(InputProviders) :
           Len(weather_data.providers[i].records) = Len(InputRecords(i))

\* P(record object, mapped record) for every record object of the response
ForAllRecords(P(_, _)) ==
    \A i \in 1..Len(InputProviders) : \A j \in 1..Len(InputRecords(i)) :
        P(InputRecords(i)[j], weather_data.providers[i].records[j])

ForSomeRecord(P(_, _)) ==
    \E i \in 1..Len(InputProviders) : \E j \in 1..Len(InputRecords(i)) :
        P(InputRecords(i)[j], weather_data.providers[i].records[j])

\* C1: a response without the Data key, or whose Data object has no Providers
\* key, is mapped to a WeatherData with no providers, and the mapper does not
\* raise.
C1_SparseResponseGivesEmptyData ==
    (outcome.op # "none" /\ ~HasProviders) =>
        /\ outcome.raised = "none"
        /\ weather_data.providers = <<>>

C1_Witness ==
    /\ outcome.op = "parse_data_response"
    /\ "Data" \in DOMAIN data
    /\ "Providers" \notin DOMAIN data["Data"]
    /\ outcome.raised = "none"
    /\ weather_data.providers = <<>>

\* C2: the keys of a mapped record's data_values are exactly the keys of the
\* record object whose value is an object that has a Value key.
C2_KeysAreTheValueObjects ==
    (MapperReturned /\ HasProviders) =>
        /\ SameShape
        /\ ForAllRecords(LAMBDA rj, rec :
               DOMAIN rec.data_values =
                   {k \in DOMAIN rj : rj[k].isdict /\ "Value" \in DOMAIN rj[k].obj})

C2_Witness ==
    /\ MapperReturned /\ HasProviders
    /\ ForSomeRecord(LAMBDA rj, rec :
           /\ \E k \in DOMAIN rj : rj[k].isdict /\ "Value" \notin DOMAIN rj[k].obj
           /\ \E k \in DOMAIN rj : ~rj[k].isdict
           /\ \E k \in DOMAIN rj : k \in DOMAIN rec.data_values)

\* C3: an item object with a Value key is stored under its own name, with the
\* object's Value, its Qc or a single space, and its Unit or the empty string.
C3_DataValueFields ==
    (MapperReturned /\ HasProviders) =>
        /\ SameShape
        /\ ForAllRecords(LAMBDA rj, rec :
               \A k \in DOMAIN rj :
                   (rj[k].isdict /\ "Value" \in DOMAIN rj[k].obj) =>
                       /\ k \in DOMAIN rec.data_values
                       /\ rec.data_values[k].value = rj[k].obj["Value"]
                       /\ rec.data_values[k].qc =
                              IF "Qc" \in DOMAIN rj[k].obj THEN rj[k].obj["Qc"] ELSE " "
                       /\ rec.data_values[k].unit =
                              IF "Unit" \in DOMAIN rj[k].obj THEN rj[k].obj["Unit"] ELSE "")

C3_Witness ==
    /\ MapperReturned /\ HasProviders
    /\ ForSomeRecord(LAMBDA rj, rec :
           /\ "Zeta" \in DOMAIN rec.data_values
           /\ DOMAIN rj["Zeta"].obj = {"Value"}
           /\ rec.data_values["Zeta"] = DataValue("0.12", " ", ""))

\* C4: get_all_records of the mapped data has one record per record object of
\* the response (a provider without Records has none), in provider order and
\* then record order.
C4_AllRecordsCountAndOrder ==
    (MapperReturned /\ HasProviders) =>
        LET inputs == Flatten([i \in 1..Len(InputProviders) |-> InputRecords(i)])
            all == get_all_records(weather_data)
        IN  /\ Len(all) = CountRecords(InputProviders)
            /\ Len(all) = Len(inputs)
            /\ \A n \in 1..Len(inputs) :
                   /\ all[n].scope = GetScalar(inputs[n], "Scope", "daily")
                   /\ DOMAIN all[n].data_values =
                          {k \in DOMAIN inputs[n] :
                              /\ inputs[n][k].isdict
                              /\ "Value" \in DOMAIN inputs[n][k].obj}

C4_Witness ==
    /\ MapperReturned /\ HasProviders
    /\ Len(InputProviders) = 2
    /\ "Records" \notin DOMAIN InputProviders[1]
    /\ InputRecords(2) = <<HourlyRecordObject, DailyRecordObject>>
    /\ Len(get_all_records(weather_data)) = 2

----------------------------------------------------------------------------
(* Claims about export_to_csv, checked under SpecExport *)

Exported == outcome.op = "export_to_csv"

ZeroRecords == \A i \in 1..Len(weather_data.providers) :
                   weather_data.providers[i].records = <<>>

SomeRecordHas(scope) ==
    \E i \in 1..Len(weather_data.providers) :
        \E j \in 1..Len(weather_data.providers[i].records) :
            weather_data.providers[i].records[j].scope = scope

\* the call writes two files
TwoFiles == outcome.separate /\ SomeRecordHas("daily") /\ SomeRecordHas("hourly")

\* the file system fails a step of a file that the call does write
FaultStrikes ==
    /\ ~ZeroRecords
    /\ \/ outcome.fault.file = 1
       \/ outcome.fault.file = 2 /\ TwoFiles

\* C6: export_to_csv on a WeatherData without records raises CimisDataError
\* and leaves no file, whatever filename and separate_daily_hourly are.
C6_NoRecordsRaisesAndWritesNothing ==
    (Exported /\ ZeroRecords) =>
        /\ outcome.raised = "CimisDataError"
        /\ DOMAIN files = {}

C6_Witness ==
    /\ Exported /\ ZeroRecords
    /\ weather_data.providers # <<>>
    /\ outcome.filename = NONE
    /\ outcome.separate
    /\ outcome.raised = "CimisDataError"
    /\ DOMAIN files = {}

\* C7: the two failures of an export are of different kinds: CimisDataError is
\* raised exactly for a WeatherData without records, and a failed step of the
\* file system leaves the call as OSError, never as CimisDataError.
C7_EmptyAndFileSystemFailuresDiffer ==
    Exported =>
        /\ (outcome.raised = "CimisDataError") <=> ZeroRecords
        /\ (outcome.raised = "OSError") <=> FaultStrikes
        /\ outcome.raised \in {"none", "CimisDataError", "OSError"}

C7_Witness ==
    /\ Exported
    /\ outcome.fault = [file |-> 1, step |-> "write"]
    /\ outcome.raised = "OSError"
    /\ \E f \in DOMAIN files : ~files[f].complete

----------------------------------------------------------------------------
(* Claims about _export_records_to_csv, checked under SpecProjector *)

CompleteFiles == {f \in DOMAIN files : files[f].complete}

\* the item keys of the records to include
IncludedItemKeys ==
    {k \in ExportItemKeys : \E n \in 1..Len(records) : k \in DOMAIN records[n].data_values}

\* the number of base columns of a file
BaseCount(file) == IF file.scope_type = "daily" THEN 9 ELSE 11

\* the data columns of a file: those after its base columns
DataColumnSeq(file) == SubSeq(file.header, BaseCount(file) + 1, Len(file.header))
DataColumnSet(file) == Range(DataColumnSeq(file))

\* the item name a column <name>_Value carries
ValueColumnItem(column) == SubSeq(column, 1, Len(column) - Len("_Value"))

\* the item names of the triples of a header, in header order
HeaderItemNames(file) ==
    [i \in 1..(Len(DataColumnSeq(file)) \div 3) |->
        ValueColumnItem(DataColumnSeq(file)[3 * i - 2])]

Ascending(names) ==
    \A i, j \in 1..Len(names) : i < j => ~StrLess(names[j], names[i])

StrictlyAscending(names) ==
    \A i, j \in 1..Len(names) : i < j => StrLess(names[i], names[j])

Untagged(k) == ~startswith(k, "Day") /\ ~startswith(k, "Hly")

Stripped(k) == IF startswith(k, "Hly") THEN SubSeq(k, 4, Len(k)) ELSE k

\* C8 as stated: in every file the triples of data columns are in ascending
\* order of the cleaned item key.
C8_TriplesAscendByCleanedKey ==
    \A f \in CompleteFiles : Ascending(HeaderItemNames(files[f]))

\* C8 as amended: in every file the triples of data columns are in ascending
\* order of the item key as it is in the records, before Hly is stripped; each
\* triple is <cleaned>_Value, <cleaned>_QC, <cleaned>_Unit.
C8_TriplesAscendByItemKey ==
    \A f \in CompleteFiles :
        LET file == files[f]
            cols == DataColumnSeq(file)
        IN  /\ StrictlyAscending(file.items)
            /\ Len(cols) = 3 * Len(file.items)
            /\ \A i \in 1..Len(file.items) :
                   /\ cols[3 * i - 2] = Stripped(file.items[i]) \o "_Value"
                   /\ cols[3 * i - 1] = Stripped(file.items[i]) \o "_QC"
                   /\ cols[3 * i] = Stripped(file.items[i]) \o "_Unit"

C8_Witness ==
    /\ "mixed.csv" \in CompleteFiles
    /\ files["mixed.csv"].items = <<"DayEto", "HlyAir">>
    /\ DataColumnSeq(files["mixed.csv"]) =
           <<"DayEto_Value", "DayEto_QC", "DayEto_Unit",
             "Air_Value", "Air_QC", "Air_Unit">>

AllModesWritten == CompleteFiles = {"daily.csv", "hourly.csv", "mixed.csv"}

\* C9: for one list of records, every data column of the mixed file is a data
\* column of the daily file or of the hourly file, and an item key with neither
\* prefix has its three columns in the daily file and in the hourly file.
C9_DailyAndHourlyCoverMixed ==
    AllModesWritten =>
        /\ DataColumnSet(files["mixed.csv"]) \subseteq
               DataColumnSet(files["daily.csv"]) \cup DataColumnSet(files["hourly.csv"])
        /\ \A k \in IncludedItemKeys :
               Untagged(k) =>
                   {k \o "_Value", k \o "_QC", k \o "_Unit"} \subseteq
                       DataColumnSet(files["daily.csv"])
                       \cap DataColumnSet(files["hourly.csv"])

C9_Witness ==
    /\ AllModesWritten
    /\ IncludedItemKeys = {"HlyAir", "day-eto"}
    /\ DataColumnSet(files["daily.csv"]) # DataColumnSet(files["mixed.csv"])

\* C10: the daily file keeps no item key that starts with Hly, the hourly file
\* none that starts with Day, and the mixed file keeps every item key of the
\* records to include.
C10_RetainedItemKeys ==
    \A f \in CompleteFiles :
        LET file == files[f]
            retained == Range(file.items)
        IN  /\ retained \subseteq IncludedItemKeys
            /\ file.scope_type = "daily" =>
                   \A k \in retained : ~startswith(k, "Hly")
            /\ file.scope_type = "hourly" =>
                   \A k \in retained : ~startswith(k, "Day")
            /\ file.scope_type = "mixed" => retained = IncludedItemKeys
            /\ Len(DataColumnSeq(file)) = 3 * Cardinality(retained)

C10_Witness ==
    /\ AllModesWritten
    /\ Range(files["daily.csv"].items) = {"DayEto"}
    /\ Range(files["hourly.csv"].items) = {"HlyAir"}
    /\ Range(files["mixed.csv"].items) = {"DayEto", "HlyAir"}

----------------------------------------------------------------------------
(* Claims about the header and the rows of a file, checked under SpecProjector *)

\* the first column of a header that has the given name
ColumnIndex(header, column) ==
    CHOOSE i \in 1..Len(header) :
        header[i] = column /\ \A j \in 1..(i - 1) : header[j] # column

\* the cell of row n of a file under a column
Cell(file, n, column) == file.rows[n][ColumnIndex(file.header, column)]

\* C11: every header starts with Provider_Name, Provider_Type, Date, Julian,
\* Station, Standard, ZipCodes, Scope, DateTime_Object in that order; Hour and
\* DateTime_Full follow them in hourly and in mixed mode, and are no column of
\* a daily file.
C11_BaseColumns ==
    \A f \in CompleteFiles :
        LET file == files[f]
            header == file.header
        IN  /\ Len(header) >= 9
            /\ SubSeq(header, 1, 9) =
                   <<"Provider_Name", "Provider_Type", "Date", "Julian", "Station",
                     "Standard", "ZipCodes", "Scope", "DateTime_Object">>
            /\ file.scope_type \in {"hourly", "mixed"} =>
                   /\ Len(header) >= 11
                   /\ SubSeq(header, 10, 11) = <<"Hour", "DateTime_Full">>
            /\ file.scope_type = "daily" =>
                   {"Hour", "DateTime_Full"} \cap Range(header) = {}

C11_Witness ==
    /\ AllModesWritten
    /\ Len(files["daily.csv"].header) = 12
    /\ Len(files["mixed.csv"].header) = 17
    /\ files["mixed.csv"].header[10] = "Hour"
    /\ files["hourly.csv"].header[11] = "DateTime_Full"

\* a date written YYYY-MM-DD, of a day that exists
IsoDateText(s) ==
    /\ Len(s) = 10
    /\ CharAt(s, 5) = "-" /\ CharAt(s, 8) = "-"
    /\ AllDigits(SubSeq(s, 1, 4)) /\ AllDigits(SubSeq(s, 6, 7))
    /\ AllDigits(SubSeq(s, 9, 10))
    /\ DigitsValue(SubSeq(s, 1, 4)) >= 1
    /\ DigitsValue(SubSeq(s, 6, 7)) \in 1..12
    /\ DigitsValue(SubSeq(s, 9, 10)) \in
           1..DaysInMonth(DigitsValue(SubSeq(s, 1, 4)), DigitsValue(SubSeq(s, 6, 7)))

\* C12: the cell DateTime_Object of every row is the ISO-8601 form of the
\* row's Date when the Date parses as YYYY-MM-DD (the date followed by
\* T00:00:00), and the Date itself, unchanged, when it does not parse; no Date
\* keeps the file from being written.
C12_DateTimeObject ==
    \A f \in CompleteFiles :
        \A n \in 1..Len(files[f].rows) :
            LET date == Cell(files[f], n, "Date")
                cell == Cell(files[f], n, "DateTime_Object")
            IN  /\ IsoDateText(date) => cell = date \o "T00:00:00"
                /\ strptime(date).raised # "none" => cell = date
                /\ cell # date =>
                       /\ Len(cell) = 19
                       /\ IsoDateText(SubSeq(cell, 1, 10))
                       /\ SubSeq(cell, 11, 19) = "T00:00:00"
                       /\ LET parts == SplitDash(date)
                          IN  /\ Len(parts) = 3
                              /\ \A i \in 1..3 : AllDigits(parts[i])
                              /\ DigitsValue(parts[1]) = DigitsValue(SubSeq(cell, 1, 4))
                              /\ DigitsValue(parts[2]) = DigitsValue(SubSeq(cell, 6, 7))
                              /\ DigitsValue(parts[3]) = DigitsValue(SubSeq(cell, 9, 10))

C12_Witness ==
    /\ "hourly.csv" \in CompleteFiles
    /\ Len(files["hourly.csv"].rows) = 1
    /\ Cell(files["hourly.csv"], 1, "Date") = "2023-02-30"
    /\ Cell(files["hourly.csv"], 1, "DateTime_Object") = "2023-02-30"
    /\ records[1].hour = "2359"

\* the files written in hourly or in mixed mode
HourFiles == {f \in CompleteFiles : files[f].scope_type \in {"hourly", "mixed"}}

\* the two parts of an Hour token of digits: its first two digits, and the rest
HH(hour) == DigitsValue(SubSeq(hour, 1, 2))
MM(hour) == DigitsValue(SubSeq(hour, 3, Len(hour)))

Letters ==
    {"a", "b", "c", "d", "e", "f", "g", "h", "i", "j", "k", "l", "m", "n", "o",
     "p", "q", "r", "s", "t", "u", "v", "w", "x", "y", "z"}

HasLetter(s) == \E i \in 1..Len(s) : CharAt(s, i) \in Letters

\* an Hour that is no hour[minute] token: not numeric, four digits with an
\* hour above 23 or a minute above 59, or more than four digits
MalformedHour(hour) ==
    /\ hour # ""
    /\ \/ ~AllDigits(hour)
       \/ Len(hour) > 4
       \/ Len(hour) = 4 /\ (HH(hour) > 23 \/ MM(hour) > 59)

C14_FourDigitHour ==
    \A f \in HourFiles :
        \A n \in 1..Len(files[f].rows) :
            LET date == Cell(files[f], n, "Date")
                hour == Cell(files[f], n, "Hour")
                time == "T" \o SubSeq(hour, 1, 2) \o ":" \o SubSeq(hour, 3, 4) \o ":00"
            IN  (/\ strptime(date).raised = "none"
                 /\ Len(hour) = 4 /\ AllDigits(hour)
                 /\ HH(hour) <= 23 /\ MM(hour) <= 59)
                => /\ Cell(files[f], n, "DateTime_Full") =
                          SubSeq(Cell(files[f], n, "DateTime_Object"), 1, 10) \o time
                   /\ IsoDateText(date) =>
                          Cell(files[f], n, "DateTime_Full") = date \o time

C14_Witness ==
    /\ "hourly.csv" \in CompleteFiles
    /\ Cell(files["hourly.csv"], 1, "Date") = "2024-02-29"
    /\ Cell(files["hourly.csv"], 1, "Hour") = "0130"
    /\ Cell(files["hourly.csv"], 1, "DateTime_Full") = "2024-02-29T01:30:00"

\* C15 as stated: in hourly and in mixed mode, a row whose Date is a date
\* YYYY-MM-DD and whose Hour is two digits HH in 00..23 has in DateTime_Full
\* that date with the time T<HH>:00:00.
C15_TwoDigitHour ==
    \A f \in HourFiles :
        \A n \in 1..Len(files[f].rows) :
            LET date == Cell(files[f], n, "Date")
                hour == Cell(files[f], n, "Hour")
            IN  (IsoDateText(date) /\ Len(hour) = 2 /\ AllDigits(hour)
                 /\ DigitsValue(hour) <= 23)
                => Cell(files[f], n, "DateTime_Full") = date \o "T" \o hour \o ":00:00"

\* a record is one of the records to include
Included(record) == record \in Range(records)

\* the records to include, each with its provider, in the order of the
\* providers of the WeatherData and of the records of each provider
EmittedOf(provider) ==
    LET kept == SelectSeq(provider.records, Included)
    IN  [j \in 1..Len(kept) |-> [provider |-> provider, record |-> kept[j]]]

Emitted ==
    Flatten([i \in 1..Len(weather_data.providers) |->
                EmittedOf(weather_data.providers[i])])

\* C16: the rows of a file are the records to include, one row for each, in
\* the order of the providers of the WeatherData and, within a provider, of
\* its records; a record that is not to be included has no row.
C16_RowsInProviderAndRecordOrder ==
    \A f \in CompleteFiles :
        LET rows == files[f].rows
        IN  /\ Len(rows) = Len(records)
            /\ Len(rows) = Len(Emitted)
            /\ \A n \in 1..Len(rows) :
                   LET provider == Emitted[n].provider
                       record == Emitted[n].record
                   IN  SubSeq(rows[n], 1, 8) =
                           <<provider.name, provider.type, record.date,
                             record.julian, OrEmpty(record.station),
                             record.standard, record.zip_codes, record.scope>>

C16_Witness ==
    /\ "mixed.csv" \in CompleteFiles
    /\ Len(weather_data.providers) = 2
    /\ Len(weather_data.providers[1].records) = 2
    /\ weather_data.providers[1].records[1].scope = "daily"
    /\ Len(files["mixed.csv"].rows) = 2
    /\ Cell(files["mixed.csv"], 1, "Provider_Name") = "P1"
    /\ Cell(files["mixed.csv"], 1, "Scope") = "hourly"
    /\ Cell(files["mixed.csv"], 2, "Provider_Name") = "P2"

\* C17 as stated: in every row, the three cells of a retained item key that
\* the row's record lacks are empty strings, and the row has a cell for every
\* column of the header.
C17_MissingItemGivesEmptyCells ==
    \A f \in CompleteFiles :
        \A n \in 1..Len(files[f].rows) :
            LET record == Emitted[n].record
            IN  /\ Len(files[f].rows[n]) = Len(files[f].header)
                /\ \A k \in Range(files[f].items) :
                       k \notin DOMAIN record.data_values =>
                           /\ Cell(files[f], n, Stripped(k) \o "_Value") = ""
                           /\ Cell(files[f], n, Stripped(k) \o "_QC") = ""
                           /\ Cell(files[f], n, Stripped(k) \o "_Unit") = ""

\* C18 as stated: in every row, the three cells of a retained item key that
\* the row's record holds are the value, the qc and the unit of its DataValue
\* (a value of None is written as the empty string).
C18_HeldItemGivesItsCells ==
    \A f \in CompleteFiles :
        \A n \in 1..Len(files[f].rows) :
            LET record == Emitted[n].record
            IN  \A k \in Range(files[f].items) :
                    k \in DOMAIN record.data_values =>
                        /\ Cell(files[f], n, Stripped(k) \o "_Value") =
                               OrEmpty(record.data_values[k].value)
                        /\ Cell(files[f], n, Stripped(k) \o "_QC") =
                               record.data_values[k].qc
                        /\ Cell(files[f], n, Stripped(k) \o "_Unit") =
                               record.data_values[k].unit

----------------------------------------------------------------------------
(* Claims about the files of export_to_csv, checked under SpecExport *)

\* the records of the WeatherData, and those of one scope
DataRecords ==
    Flatten([i \in 1..Len(weather_data.providers) |->
                weather_data.providers[i].records])

ScopeIs(scope, record) == record.scope = scope

RecordsOf(scope) == SelectSeq(DataRecords, LAMBDA r : ScopeIs(scope, r))

ItemKeysOf(recs) ==
    {k \in ExportItemKeys : \E n \in 1..Len(recs) : k \in DOMAIN recs[n].data_values}

\* the name of the file of a call: the filename given, or the generated one
GivenName ==
    IF outcome.filename = NONE THEN "cimis_weather_data.csv" ELSE outcome.filename

\* <stem><tag><suffix> of the name of the file of a call
TaggedName(tag) ==
    IF outcome.filename = "out" THEN "out" \o tag
    ELSE IF outcome.filename = "out.csv" THEN "out" \o tag \o ".csv"
    ELSE "cimis_weather_data" \o tag \o ".csv"

\* a file holds the records of one scope only, built with the rules of that
\* scope from these records alone
BuiltFrom(file, scope, unwanted) ==
    /\ file.complete
    /\ file.scope_type = scope
    /\ Len(file.rows) = Len(RecordsOf(scope))
    /\ \A n \in 1..Len(file.rows) : Cell(file, n, "Scope") = scope
    /\ Range(file.items) =
           {k \in ItemKeysOf(RecordsOf(scope)) : ~startswith(k, unwanted)}
    /\ ("Hour" \in Range(file.header)) <=> (scope = "hourly")

\* C19: a call with separate_daily_hourly on data with a daily and an hourly
\* record writes two files and no other: <stem>_daily<suffix> with the daily
\* records only, built with the daily rules, and <stem>_hourly<suffix> with
\* the hourly records only, built with the hourly rules, the header of each
\* from the item keys of its own records.
C19_TwoFilesOneForEachScope ==
    (Exported /\ TwoFiles /\ outcome.raised = "none") =>
        /\ DOMAIN files = {TaggedName("_daily"), TaggedName("_hourly")}
        /\ BuiltFrom(files[TaggedName("_daily")], "daily", "Hly")
        /\ BuiltFrom(files[TaggedName("_hourly")], "hourly", "Day")
        /\ outcome.returned =
               "Daily: " \o TaggedName("_daily")
               \o ", Hourly: " \o TaggedName("_hourly")

C19_Witness ==
    /\ Exported /\ TwoFiles /\ outcome.raised = "none"
    /\ SomeRecordHas("monthly")
    /\ DOMAIN files = {"out_daily", "out_hourly"}
    /\ files["out_daily"].items = <<"DayEto", "day-eto">>
    /\ files["out_hourly"].items = <<"HlyEto">>

\* the call writes one file
OneFile == Exported /\ outcome.raised = "none" /\ ~ZeroRecords /\ ~TwoFiles

\* what the mixed rules give for all the records: a row for each record, every
\* item key retained, the columns Hour and DateTime_Full
MixedContent(file) ==
    /\ file.complete
    /\ Len(file.rows) = Len(DataRecords)
    /\ Range(file.items) = ItemKeysOf(DataRecords)
    /\ {"Hour", "DateTime_Full"} \subseteq Range(file.header)

\* a file built in mixed mode from all the records
BuiltMixed(file) == file.scope_type = "mixed" /\ MixedContent(file)

\* C20 as stated: a call that does not both ask for separation and have a
\* daily and an hourly record writes one file, built with the mixed rules.
C20_OneFileAlwaysMixed ==
    OneFile =>
        /\ DOMAIN files = {GivenName}
        /\ MixedContent(files[GivenName])

\* C20 as amended: such a call writes one file; it is built with the mixed
\* rules when separation is not asked for or no record is daily or hourly,
\* with the daily rules from the daily records when separation is asked for
\* and there are daily records, and with the hourly rules from the hourly
\* records when separation is asked for and there are hourly records.
C20_OneFileByScope ==
    OneFile =>
        /\ DOMAIN files = {GivenName}
        /\ IF outcome.separate /\ SomeRecordHas("daily")
           THEN BuiltFrom(files[GivenName], "daily", "Hly")
           ELSE IF outcome.separate /\ SomeRecordHas("hourly")
           THEN BuiltFrom(files[GivenName], "hourly", "Day")
           ELSE BuiltMixed(files[GivenName])
        /\ outcome.returned = GivenName

C20_Witness ==
    /\ OneFile /\ outcome.separate
    /\ SomeRecordHas("hourly") /\ SomeRecordHas("monthly")
    /\ DOMAIN files = {"out.csv"}
    /\ files["out.csv"].scope_type = "hourly"
    /\ Len(files["out.csv"].rows) = 2
    /\ Len(DataRecords) = 3

----------------------------------------------------------------------------
(* Claims about the item keys and the column names of a file, checked under  *)
(* SpecProjector                                                             *)

\* the three columns of an item key
ColumnsOf(k) ==
    {Stripped(k) \o "_Value", Stripped(k) \o "_QC", Stripped(k) \o "_Unit"}

\* a file has a column of an item key of a catalog
HasColumnOf(file, catalog) ==
    \E k \in Range(catalog) : ColumnsOf(k) \cap Range(file.header) # {}

\* C26: a file written in daily mode has no column of an item named as in the
\* default hourly catalog, and a file written in hourly mode has no column of
\* an item named as in the default daily catalog.
C26_NoColumnOfTheOtherCatalog ==
    \A f \in CompleteFiles :
        /\ files[f].scope_type = "daily" =>
               ~HasColumnOf(files[f], DEFAULT_HOURLY_DATA_ITEMS)
        /\ files[f].scope_type = "hourly" =>
               ~HasColumnOf(files[f], DEFAULT_DAILY_DATA_ITEMS)

\* C27: in every file the column names of the header are pairwise distinct.
C27_ColumnNamesDistinct ==
    \A f \in CompleteFiles :
        \A i, j \in 1..Len(files[f].header) :
            i # j => files[f].header[i] # files[f].header[j]

----------------------------------------------------------------------------
(* Claims about the records and the files of export_to_csv, checked under    *)
(* SpecExport                                                                *)

\* the rows of all files that carry a scope
RowsWithScope(scope) ==
    {<<f, n>> \in UNION {{f} \X (1..Len(files[f].rows)) : f \in CompleteFiles} :
        Cell(files[f], n, "Scope") = scope}

\* C28: after a successful export_to_csv every record of the data is a row of
\* exactly one file: for every scope, daily, hourly or another, the files
\* together hold as many rows of that scope as the data has records of it.
C28_EveryRecordInOneFile ==
    (Exported /\ outcome.raised = "none") =>
        \A scope \in {"daily", "hourly", "monthly"} :
            Cardinality(RowsWithScope(scope)) = Len(RecordsOf(scope))

\* C30: in a separated export of data with a daily and an hourly record the
\* daily file is written first and whole: when a step of the hourly file
\* fails the call raises and the daily file is on disk, complete, with all
\* the daily records; when a step of the daily file fails the hourly file
\* was never opened.
C30_DailyFileStaysWhenHourlyFails ==
    (Exported /\ TwoFiles) =>
        /\ outcome.fault.file = 2 =>
               /\ outcome.raised = "OSError"
               /\ outcome.returned = NONE
               /\ TaggedName("_daily") \in DOMAIN files
               /\ BuiltFrom(files[TaggedName("_daily")], "daily", "Hly")
               /\ TaggedName("_hourly") \in DOMAIN files =>
                      ~files[TaggedName("_hourly")].complete
        /\ outcome.fault.file = 1 =>
               /\ outcome.raised = "OSError"
               /\ TaggedName("_hourly") \notin DOMAIN files

C30_Witness ==
    /\ Exported /\ TwoFiles
    /\ outcome.fault = [file |-> 2, step |-> "write"]
    /\ outcome.raised = "OSError"
    /\ DOMAIN files = {"out_daily.csv", "out_hourly.csv"}
    /\ files["out_daily.csv"].complete
    /\ Len(files["out_daily.csv"].rows) = 2
    /\ ~files["out_hourly.csv"].complete

----------------------------------------------------------------------------
(* Claims about the header of two exports, checked under SpecHeader *)

\* the item keys of the records of the n-th export
ExportedKeys(n) == ItemKeysOf(outcome.exported[n].records)

\* the file of the n-th export
ExportedFile(n) == files[HeaderFiles[n]]

----------------------------------------------------------------------------
(* Claims about the request layer, checked under SpecFetch *)

DataFetches == {"get_daily_data", "get_hourly_data", "get_data"}

FetchOperations ==
    DataFetches
    \cup {"get_stations", "get_station_zip_codes", "get_spatial_zip_codes"}

\* a fetch operation was called
MadeRequest == outcome.op \in FetchOperations

\* the WeatherData that the mapper makes of the response
FetchedData == parse_data_body(outcome.request.value).value

\* the providers of a WeatherData that have a record of a scope, by index
ProvidersWith(wd, scope) ==
    SelectSeq([i \in 1..Len(wd.providers) |-> i],
              LAMBDA i : \E j \in 1..Len(wd.providers[i].records) :
                            wd.providers[i].records[j].scope = scope)

\* returned is fetched with the records of another scope removed
OnlyScope(returned, fetched, scope) ==
    LET kept == ProvidersWith(fetched, scope)
    IN  /\ Len(returned.providers) = Len(kept)
        /\ \A n \in 1..Len(kept) :
               LET p == returned.providers[n]
                   q == fetched.providers[kept[n]]
               IN  /\ p.name = q.name /\ p.type = q.type /\ p.owner = q.owner
                   /\ p.records = SelectSeq(q.records, LAMBDA r : r.scope = scope)
                   /\ p.records # <<>>
                   /\ \A j \in 1..Len(p.records) : p.records[j].scope = scope

\* C22: what get_daily_data returns is the fetched data with every record
\* that is not daily removed: the daily records in their order, under a
\* provider of the same name, type and owner, and no provider without
\* records; the same for get_hourly_data and the hourly records.
C22_FetchReturnsOneScope ==
    /\ (outcome.op = "get_daily_data" /\ outcome.raised = "none") =>
           OnlyScope(outcome.returned, FetchedData, "daily")
    /\ (outcome.op = "get_hourly_data" /\ outcome.raised = "none") =>
           OnlyScope(outcome.returned, FetchedData, "hourly")

C22_Witness ==
    /\ outcome.op = "get_daily_data" /\ outcome.raised = "none"
    /\ Len(FetchedData.providers) = 2
    /\ Len(FetchedData.providers[1].records) = 1
    /\ FetchedData.providers[1].records[1].scope = "hourly"
    /\ Len(FetchedData.providers[2].records) = 2
    /\ FetchedData.providers[2].records[1].scope = "monthly"
    /\ Len(outcome.returned.providers) = 1
    /\ outcome.returned.providers[1].name = "N2"
    /\ Len(outcome.returned.providers[1].records) = 1

\* C23: what _make_request does follows from what the transport did: an
\* exception of the transport gives CimisConnectionError, status 403
\* CimisAuthenticationError, status 404 CimisAPIError with http_code 404 (its
\* message the Message of a JSON body, 'Resource not found' for a body that
\* is no JSON), another status that is not 200 CimisAPIError with that
\* status, status 200 with a body that is no JSON CimisDataError, and only
\* status 200 with a JSON body returns, the parsed value.
C23_OutcomeFollowsTransport ==
    MadeRequest =>
        LET t == outcome.transport
            q == outcome.request
            answered == t.raises = "none"
        IN  /\ ~answered => q.raised = "CimisConnectionError"
            /\ (answered /\ t.status_code = 403) =>
                   q.raised = "CimisAuthenticationError"
            /\ (answered /\ t.status_code = 404) =>
                   /\ q.raised = "CimisAPIError"
                   /\ q.exception.http_code = <<404>>
                   /\ t.body.json = "no" =>
                          q.exception.message = "Resource not found"
                   /\ (t.body.json = "object" /\ "Message" \in DOMAIN t.body.value) =>
                          q.exception.message = t.body.value["Message"]
            /\ (answered /\ t.status_code \notin {200, 403, 404}) =>
                   /\ q.raised = "CimisAPIError"
                   /\ q.exception.http_code = <<t.status_code>>
            /\ (answered /\ t.status_code = 200 /\ t.body.json = "no") =>
                   q.raised = "CimisDataError"
            /\ (q.raised = "none") <=>
                   (answered /\ t.status_code = 200 /\ t.body.json # "no")
            /\ q.raised = "none" => q.value = t.body

\* C24: every fetch operation calls session.get once, whether it returns or
\* raises; an exception of the request ends the operation, and the response
\* is mapped only when the transport has answered with status 200.
C24_OneGetAndNoRetry ==
    MadeRequest =>
        /\ outcome.gets = 1
        /\ outcome.mapped =>
               /\ outcome.transport.raises = "none"
               /\ outcome.transport.status_code = 200
        /\ outcome.request.raised # "none" =>
               /\ ~outcome.mapped
               /\ outcome.raised = outcome.request.raised

C24_Witness ==
    /\ outcome.op = "get_hourly_data"
    /\ outcome.transport.raises = "Timeout"
    /\ outcome.raised = "CimisConnectionError"
    /\ outcome.gets = 1
    /\ ~outcome.mapped

EndpointHelpers ==
    {"get_data_endpoint", "get_station_endpoint",
     "get_station_zipcode_endpoint", "get_spatial_zipcode_endpoint"}

\* the path of the endpoint of a helper, as the API has it
EndpointPath(helper) ==
    IF helper = "get_data_endpoint" THEN "data"
    ELSE IF helper = "get_station_endpoint" THEN "station"
    ELSE IF helper = "get_station_zipcode_endpoint" THEN "stationzipcode"
    ELSE "spatialzipcode"

\* C25: every helper returns BASE_URL, a slash and the path of its endpoint,
\* followed by a slash and the id when one is given; none raises.
C25_HelpersReturnTheUrl ==
    outcome.op \in EndpointHelpers =>
        /\ outcome.raised = "none"
        /\ outcome.returned =
               BASE_URL \o "/" \o EndpointPath(outcome.op)
               \o (IF Truthy(outcome.arg) THEN "/" \o outcome.arg ELSE "")

----------------------------------------------------------------------------
(* Claims about the WeatherData the caller keeps, checked under SpecFrame *)

====
